---- MODULE Spec2Model ----
(***************************************************************************)
(* A model of RoutePipeline (src/src/RouteDataPipeline.py): the filter     *)
(* compiler processFilters, the keyword validation validateKeywordArgs and *)
(* the catalog reads fetchRoutes / fetchRouteRatings, run against a small  *)
(* relational catalog.                                                     *)
(*                                                                         *)
(* Texts whose characters the code inspects (substring tests, strip,       *)
(* endswith, float(), LIKE) are sequences of one-character strings; texts  *)
(* the code only compares for equality are TLA+ strings.  A nullable       *)
(* number is a sequence of length 0 (None / NULL) or 1.                    *)
(***************************************************************************)
EXTENDS Integers, Sequences, FiniteSets

\* ------------------------------------------------------------------ bounds

\* The largest number of criteria in a mapping drawn from MixedKwargs.
MaxCriteria == 2

\* ------------------------------------------------------- character helpers

UpperLetters == <<"A","B","C","D","E","F","G","H","I","J","K","L","M",
                  "N","O","P","Q","R","S","T","U","V","W","X","Y","Z">>
LowerLetters == <<"a","b","c","d","e","f","g","h","i","j","k","l","m",
                  "n","o","p","q","r","s","t","u","v","w","x","y","z">>
Digits == <<"0","1","2","3","4","5","6","7","8","9">>

IsDigit(c) == \E i \in 1..10 : Digits[i] = c

DigitValue(c) == (CHOOSE i \in 1..10 : Digits[i] = c) - 1

\* str.lower() on one character
LowerChar(c) ==
    IF \E i \in 1..26 : UpperLetters[i] = c
    THEN LowerLetters[CHOOSE i \in 1..26 : UpperLetters[i] = c]
    ELSE c

\* str.lower()
LowerStr(s) == [i \in 1..Len(s) |-> LowerChar(s[i])]

\* s.startswith(p) at offset i (1-based)
MatchesAt(s, p, i) ==
    /\ i + Len(p) - 1 <= Len(s)
    /\ \A j \in 1..Len(p) : s[i + j - 1] = p[j]

\* Python's  p in s  on strings, which is also SQL's  s like '%p%'  for a
\* pattern p without wildcard characters
Contains(s, p) == \E i \in 1..(Len(s) + 1) : MatchesAt(s, p, i)

\* s.endswith(c) for a one-character c
EndsWith(s, c) == Len(s) > 0 /\ s[Len(s)] = c

RECURSIVE LStripChars(_, _)
LStripChars(s, cs) ==
    IF Len(s) > 0 /\ s[1] \in cs THEN LStripChars(Tail(s), cs) ELSE s

RECURSIVE RStripChars(_, _)
RStripChars(s, cs) ==
    IF Len(s) > 0 /\ s[Len(s)] \in cs
    THEN RStripChars(SubSeq(s, 1, Len(s) - 1), cs)
    ELSE s

\* str.strip(chars): removes the characters from BOTH ends
StripChars(s, cs) == RStripChars(LStripChars(s, cs), cs)

\* str.strip(): whitespace from both ends
StripSpace(s) == StripChars(s, {" "})

RECURSIVE DigitsValue(_, _)
DigitsValue(s, acc) ==
    IF Len(s) = 0 THEN acc ELSE DigitsValue(Tail(s), 10 * acc + DigitValue(s[1]))

\* float(text).  The texts of the model are whole numbers: optional
\* surrounding whitespace, an optional sign, one or more digits.  The result
\* is <<>> when float() raises ValueError and <<v>> otherwise.
ParseFloat(text) ==
    LET t == StripSpace(text)
        signed == Len(t) > 0 /\ t[1] \in {"+", "-"}
        body == IF signed THEN Tail(t) ELSE t
    IN  IF Len(body) > 0 /\ \A i \in 1..Len(body) : IsDigit(body[i])
        THEN IF signed /\ t[1] = "-"
             THEN << 0 - DigitsValue(body, 0) >>
             ELSE << DigitsValue(body, 0) >>
        ELSE << >>

\* re.search(r"\d+", text): the first maximal run of digits, <<>> if none
RECURSIVE TakeDigits(_)
TakeDigits(s) ==
    IF Len(s) > 0 /\ IsDigit(s[1]) THEN <<s[1]>> \o TakeDigits(Tail(s)) ELSE << >>

RECURSIVE FirstDigitRun(_)
FirstDigitRun(s) ==
    IF Len(s) = 0 THEN << >>
    ELSE IF IsDigit(s[1]) THEN TakeDigits(s)
    ELSE FirstDigitRun(Tail(s))

\* SQL  s like p : % matches any run of characters, _ exactly one
RECURSIVE Like(_, _)
Like(s, p) ==
    IF Len(p) = 0 THEN Len(s) = 0
    ELSE IF p[1] = "%"
         THEN Like(s, Tail(p)) \/ (Len(s) > 0 /\ Like(Tail(s), p))
    ELSE IF Len(s) = 0 THEN FALSE
    ELSE (p[1] = "_" \/ p[1] = s[1]) /\ Like(Tail(s), Tail(p))


\* ------------------------------------------------------------ key names

\* Python's None and SQL's NULL where the value is otherwise a string
None == "<None>"

\* SQL's NULL where the value is otherwise a text
NullText == << None >>

\* The key spellings of the model with what str.lower() makes of each: every
\* name of allowedKeywords as written, in lower case and in upper case, the
\* docstring's severityThreshold, and three names that are not allowed.
KeySpellings == {
    <<"parentAreaName", "parentareaname">>,
    <<"parentareaname", "parentareaname">>,
    <<"PARENTAREANAME", "parentareaname">>,
    <<"routeDifficultyLow", "routedifficultylow">>,
    <<"routedifficultylow", "routedifficultylow">>,
    <<"ROUTEDIFFICULTYLOW", "routedifficultylow">>,
    <<"routeDifficultyHigh", "routedifficultyhigh">>,
    <<"routedifficultyhigh", "routedifficultyhigh">>,
    <<"ROUTEDIFFICULTYHIGH", "routedifficultyhigh">>,
    <<"type", "type">>,
    <<"TYPE", "type">>,
    <<"height", "height">>,
    <<"HEIGHT", "height">>,
    <<"pitches", "pitches">>,
    <<"PITCHES", "pitches">>,
    <<"grade", "grade">>,
    <<"GRADE", "grade">>,
    <<"severitythreshold", "severitythreshold">>,
    <<"SEVERITYTHRESHOLD", "severitythreshold">>,
    <<"averageRating", "averagerating">>,
    <<"averagerating", "averagerating">>,
    <<"AVERAGERATING", "averagerating">>,
    <<"elevation", "elevation">>,
    <<"ELEVATION", "elevation">>,
    <<"voteCount", "votecount">>,
    <<"votecount", "votecount">>,
    <<"VOTECOUNT", "votecount">>,
    <<"city", "city">>,
    <<"CITY", "city">>,
    <<"state", "state">>,
    <<"STATE", "state">>,
    <<"latitude", "latitude">>,
    <<"LATITUDE", "latitude">>,
    <<"longitude", "longitude">>,
    <<"LONGITUDE", "longitude">>,
    <<"radius", "radius">>,
    <<"RADIUS", "radius">>,
    <<"proximityRoute", "proximityroute">>,
    <<"proximityroute", "proximityroute">>,
    <<"PROXIMITYROUTE", "proximityroute">>,
    <<"distanceUnits", "distanceunits">>,
    <<"distanceunits", "distanceunits">>,
    <<"DISTANCEUNITS", "distanceunits">>,
    <<"severityThreshold", "severitythreshold">>,
    <<"Type", "type">>,
    <<"areaName", "areaname">>,
    <<"Foo", "foo">>,
    <<"difficulty", "difficulty">>}

KeyNames == { p[1] : p \in KeySpellings }

\* key.lower()
KeyLower(k) == (CHOOSE p \in KeySpellings : p[1] = k)[2]

\* validateKeywordArgs: the allowedKeywords literal
allowedKeywords == {
    "parentAreaName", "routeDifficultyLow", "routeDifficultyHigh", "type", "height", "pitches", "grade",
    "severitythreshold",
    "averageRating", "elevation", "voteCount",
    "city", "state", "latitude", "longitude",
    "radius", "proximityRoute", "distanceUnits"}

\* {key.lower(): value for key, value in kwargs.items()}.  The mappings of
\* the model hold no two spellings of one name, so no entry is overwritten.
LowerKeys(kwargs) ==
    [lk \in { KeyLower(k) : k \in DOMAIN kwargs } |->
        kwargs[CHOOSE k \in DOMAIN kwargs : KeyLower(k) = lk]]

\* ------------------------------------------------------- reference tables

\* DifficultyReference(RatingSystem, Difficulty, DifficultyRanking)
DifficultyReference == {
    [RatingSystem |-> "YDS",  Difficulty |-> "5th",        DifficultyRanking |-> 1],
    [RatingSystem |-> "YDS",  Difficulty |-> "5.8",        DifficultyRanking |-> 2],
    [RatingSystem |-> "YDS",  Difficulty |-> "5.9",        DifficultyRanking |-> 3],
    [RatingSystem |-> "YDS",  Difficulty |-> "5.10a",      DifficultyRanking |-> 4],
    [RatingSystem |-> "V",    Difficulty |-> "V0",         DifficultyRanking |-> 2],
    [RatingSystem |-> "V",    Difficulty |-> "V1",         DifficultyRanking |-> 3],
    [RatingSystem |-> "V",    Difficulty |-> "V2",         DifficultyRanking |-> 4],
    [RatingSystem |-> "C",    Difficulty |-> "C1",         DifficultyRanking |-> 1],
    [RatingSystem |-> "A",    Difficulty |-> "A1",         DifficultyRanking |-> 1],
    [RatingSystem |-> "Snow", Difficulty |-> "Easy Snow",  DifficultyRanking |-> 1],
    [RatingSystem |-> "Snow", Difficulty |-> "Steep Snow", DifficultyRanking |-> 3],
    [RatingSystem |-> "AI",   Difficulty |-> "AI1",        DifficultyRanking |-> 1],
    [RatingSystem |-> "WI",   Difficulty |-> "WI1",        DifficultyRanking |-> 1],
    [RatingSystem |-> "WI",   Difficulty |-> "WI2",        DifficultyRanking |-> 2],
    [RatingSystem |-> "M",    Difficulty |-> "M1",         DifficultyRanking |-> 1] }

\* SeverityReference(Severity, SeverityRanking)
SeverityReference == {
    [Severity |-> <<"G">>,    SeverityRanking |-> 1],
    [Severity |-> <<"P","G">>,   SeverityRanking |-> 2],
    [Severity |-> <<"P","G","1","3">>, SeverityRanking |-> 3],
    [Severity |-> <<"R">>,    SeverityRanking |-> 4],
    [Severity |-> <<"X">>,    SeverityRanking |-> 5] }

\* The id of the generic area, as written in the predicate
GenericAreaId == 112166257

\* Areas(AreaId, AreaName, ParentAreaId, Latitude, Longitude, Elevation)
Areas == {
    [AreaId |-> 1, AreaName |-> <<"E","l","d","o">>, ParentAreaId |-> << >>,
     Latitude |-> <<4>>, Longitude |-> <<1>>, Elevation |-> <<6>>],
    [AreaId |-> 2, AreaName |-> <<"R","e","d">>, ParentAreaId |-> <<1>>,
     Latitude |-> <<4>>, Longitude |-> <<2>>, Elevation |-> <<7>>],
    [AreaId |-> 3, AreaName |-> <<"Y","o","s">>, ParentAreaId |-> << >>,
     Latitude |-> << >>, Longitude |-> << >>, Elevation |-> << >>],
    [AreaId |-> 4, AreaName |-> <<"R","e","e","d">>, ParentAreaId |-> <<3>>,
     Latitude |-> <<8>>, Longitude |-> <<9>>, Elevation |-> << 0 - 3 >>],
    [AreaId |-> GenericAreaId, AreaName |-> <<"G","e","n">>, ParentAreaId |-> << >>,
     Latitude |-> <<4>>, Longitude |-> <<1>>, Elevation |-> <<5>>] }

\* Routes(RouteId, AreaId, Difficulty_YDS, Difficulty_ADL, Severity, Type,
\* Height, Pitches, Grade, AverageRating, VoteCount).  Difficulty_ADL is the
\* text already split at its spaces (string_to_array(..., ' ')).
Routes == {
    [RouteId |-> 101, AreaId |-> 1, Difficulty_YDS |-> "5.8", Difficulty_ADL |-> << >>,
     Severity |-> NullText, Type |-> <<"T","r","a","d">>,
     Height |-> <<3>>, Pitches |-> <<1>>, Grade |-> << >>,
     AverageRating |-> <<3>>, VoteCount |-> <<5>>],
    [RouteId |-> 102, AreaId |-> 2, Difficulty_YDS |-> "5.10a", Difficulty_ADL |-> <<"A1">>,
     Severity |-> <<"R">>, Type |-> <<"T","r","a","d",","," ","A","i","d">>,
     Height |-> <<12>>, Pitches |-> <<3>>, Grade |-> <<4>>,
     AverageRating |-> <<4>>, VoteCount |-> <<12>>],
    [RouteId |-> 103, AreaId |-> 2, Difficulty_YDS |-> "V1", Difficulty_ADL |-> << >>,
     Severity |-> <<"P","G","1","3">>, Type |-> <<"B","o","u","l","d","e","r">>,
     Height |-> << >>, Pitches |-> << >>, Grade |-> << >>,
     AverageRating |-> <<2>>, VoteCount |-> <<3>>],
    [RouteId |-> 104, AreaId |-> 4, Difficulty_YDS |-> "5.9", Difficulty_ADL |-> <<"Steep", "Snow">>,
     Severity |-> <<"X">>, Type |-> <<"S","p","o","r","t",","," ","S","n","o","w">>,
     Height |-> <<5>>, Pitches |-> <<2>>, Grade |-> <<3>>,
     AverageRating |-> <<1>>, VoteCount |-> <<0>>],
    [RouteId |-> 105, AreaId |-> GenericAreaId, Difficulty_YDS |-> "5.8", Difficulty_ADL |-> << >>,
     Severity |-> <<"G">>, Type |-> <<"S","p","o","r","t",","," ","T","R">>,
     Height |-> <<3>>, Pitches |-> <<1>>, Grade |-> <<1>>,
     AverageRating |-> <<3>>, VoteCount |-> <<3>>],
    [RouteId |-> 106, AreaId |-> 3, Difficulty_YDS |-> None, Difficulty_ADL |-> <<"WI2", "M1">>,
     Severity |-> <<"P","G">>, Type |-> <<"I","c","e",","," ","M","i","x","e","d">>,
     Height |-> <<9>>, Pitches |-> <<3>>, Grade |-> <<5>>,
     AverageRating |-> <<4>>, VoteCount |-> <<1>>],
    [RouteId |-> 107, AreaId |-> 1, Difficulty_YDS |-> "5.9", Difficulty_ADL |-> << >>,
     Severity |-> <<"P","G","1","3">>, Type |-> <<"S","p","o","r","t">>,
     Height |-> <<4>>, Pitches |-> <<1>>, Grade |-> << >>,
     AverageRating |-> <<3>>, VoteCount |-> <<4>>],
    [RouteId |-> 108, AreaId |-> 4, Difficulty_YDS |-> None, Difficulty_ADL |-> <<"WI1", "WI2">>,
     Severity |-> <<"G">>, Type |-> <<"I","c","e">>,
     Height |-> <<6>>, Pitches |-> <<2>>, Grade |-> <<2>>,
     AverageRating |-> <<2>>, VoteCount |-> <<2>>] }

\* RouteComments(CommentId, RouteId, CommentBody)
RouteComments == {
    [CommentId |-> 1, RouteId |-> 101, CommentBody |-> "c1"],
    [CommentId |-> 2, RouteId |-> 101, CommentBody |-> "c2"],
    [CommentId |-> 3, RouteId |-> 102, CommentBody |-> "c3"],
    [CommentId |-> 4, RouteId |-> 104, CommentBody |-> "c4"],
    [CommentId |-> 5, RouteId |-> 108, CommentBody |-> "c5"] }

\* RouteRatings(RatingId, RouteId, UserId, Rating)
RouteRatings == {
    [RatingId |-> 1, RouteId |-> 101, UserId |-> <<7>>, Rating |-> 3],
    [RatingId |-> 2, RouteId |-> 101, UserId |-> <<8>>, Rating |-> 4],
    [RatingId |-> 3, RouteId |-> 102, UserId |-> << >>, Rating |-> 2],
    [RatingId |-> 4, RouteId |-> 103, UserId |-> <<7>>, Rating |-> 1],
    [RatingId |-> 5, RouteId |-> 106, UserId |-> <<8>>, Rating |-> 4],
    [RatingId |-> 6, RouteId |-> 104, UserId |-> <<8>>, Rating |-> 2],
    [RatingId |-> 7, RouteId |-> 107, UserId |-> <<7>>, Rating |-> 4],
    [RatingId |-> 8, RouteId |-> 108, UserId |-> <<9>>, Rating |-> 3] }

\* geoAgent.geocode(query = "city, state", exactly_one = True): the places
\* the geocoder knows, <<>> for None
Geocode(city, state) ==
    IF city = <<"B","o","u","l","d","e","r">> /\ state = <<"C","o","l","o","r","a","d","o">>
    THEN << [lat |-> 4, lon |-> 1] >>
    ELSE << >>

\* ------------------------------------------------------------ query text

\* A fragment of SQL text is a record naming the fixed text the code wrote.
\* Where the text holds a value, arg says how it got there: as a placeholder
\* %(name)s looked up in the parameter mapping when the query is executed, or
\* as a literal concatenated into the text.
Placeholder(name) == [k |-> "ph", v |-> name]
Literal(value) == [k |-> "lit", v |-> value]

\* "and (<col> <op> %(<name>)s) "
Cmp(col, op, name) == [t |-> "cmp", col |-> col, op |-> op, arg |-> Placeholder(name)]

\* "where true "
WhereTrue == [t |-> "true"]

\* queryParameters = {} and queryParameters[name] = value
EmptyParameters == [x \in {} |-> 0]
Put(params, name, value) ==
    [x \in DOMAIN params \cup {name} |-> IF x = name THEN value ELSE params[x]]

\* One call on the database cursor or the geocoder: the query, the names it
\* binds as parameters, and the values concatenated into its text.
Executed(query, bound, inlined) ==
    [call |-> "cursor.execute", query |-> query, bound |-> bound, inlined |-> inlined]
Geocoded(city, state) ==
    [call |-> "geoAgent.geocode", query |-> <<city, state>>, bound |-> {}, inlined |-> {}]

\* The compiler's progress: the exception raised so far ("" for none), the
\* join and where text, the parameters, and the calls made on the cursor and
\* the geocoder.
NewPlan ==
    [exc |-> "", msg |-> "", joinClause |-> << >>, whereClause |-> <<WhereTrue>>,
     queryParameters |-> EmptyParameters, log |-> << >>]

Raise(st, exc, msg) == [st EXCEPT !.exc = exc, !.msg = msg]

Failed(st) == st.exc # ""

AddWhere(st, clause) == [st EXCEPT !.whereClause = Append(@, clause)]
AddJoin(st, join) == [st EXCEPT !.joinClause = Append(@, join)]
AddParam(st, name, value) == [st EXCEPT !.queryParameters = Put(@, name, value)]
AddLog(st, events) == [st EXCEPT !.log = @ \o events]

\* ------------------------------------------------ rating-system difficulties

\* fetchRatingSystemDifficulties: the case expression naming a rating system
RatingSystemName(rs) ==
    CASE rs = "YDS"  -> "Yosemite Decimal"
      [] rs = "V"    -> "V Scale"
      [] rs = "C"    -> "Clean Aid"
      [] rs = "A"    -> "Aid"
      [] rs = "Snow" -> "Snow"
      [] rs = "AI"   -> "Alpine Ice"
      [] rs = "WI"   -> "Winter Ice"
      [] rs = "M"    -> "Mixed"
      [] OTHER       -> None

RatingSystems == { row.RatingSystem : row \in DifficultyReference }

\* fetchRatingSystemDifficulties: for each rating system of the reference
\* table, under its name, its difficulties other than '5th'
fetchRatingSystemDifficulties ==
    [name \in { RatingSystemName(rs) : rs \in RatingSystems } |->
        { row.Difficulty : row \in
            { x \in DifficultyReference :
                /\ RatingSystemName(x.RatingSystem) = name
                /\ x.Difficulty # "5th" } }]

\* The queries fetchRatingSystemDifficulties executes: one for the systems,
\* then one per system with the system's name concatenated into the text.
\* (The order of the per-system queries is the table's; the model lists them
\* in the order of the case expression.)
RatingSystemOrder == <<"YDS", "V", "C", "A", "Snow", "AI", "WI", "M">>

RECURSIVE DifficultyQueries(_)
DifficultyQueries(order) ==
    IF Len(order) = 0 THEN << >>
    ELSE (IF order[1] \in RatingSystems
          THEN << Executed("ratingSystemRatings", {}, {order[1]}) >>
          ELSE << >>) \o DifficultyQueries(Tail(order))

fetchRatingSystemDifficultiesLog ==
    << Executed("difficultySystems", {}, {}) >> \o DifficultyQueries(RatingSystemOrder)

\* processFilters: the if/elif chain that picks the rating system of a
\* token.  Each test reads routeDifficultyPatterns[name], a KeyError when the
\* reference table holds no row of that system.
DetectionOrder ==
    << <<"Yosemite Decimal", "YDS">>, <<"V Scale", "V">>, <<"Winter Ice", "WI">>,
       <<"Alpine Ice", "AI">>, <<"Mixed", "M">>, <<"Snow", "Snow">>,
       <<"Aid", "A">>, <<"Clean Aid", "C">> >>

RECURSIVE DetectRatingSystem(_, _, _)
DetectRatingSystem(pattern, patterns, chain) ==
    IF Len(chain) = 0
    THEN [exc |-> "ValueError", msg |-> "Could not determine what difficulty metric to use",
          ratingSystem |-> None]
    ELSE IF chain[1][1] \notin DOMAIN patterns
    THEN [exc |-> "KeyError", msg |-> chain[1][1], ratingSystem |-> None]
    ELSE IF pattern \in patterns[chain[1][1]]
    THEN [exc |-> "", msg |-> "", ratingSystem |-> chain[1][2]]
    ELSE DetectRatingSystem(pattern, patterns, Tail(chain))

\* Python truthiness of a token: neither None nor the empty string
Truthy(token) == token # None /\ token # ""

\* "select DifficultyRanking ... where Difficulty = %(d)s and RatingSystem =
\* %(ratingSystem)s" followed by fetchone(): the rankings found
RankingsOf(token, ratingSystem) ==
    { row.DifficultyRanking : row \in
        { x \in DifficultyReference :
            x.Difficulty = token /\ x.RatingSystem = ratingSystem } }

\* The rankings of the whole reference table, whatever the rating system
AllRankings(ratingSystem) ==
    { row.DifficultyRanking : row \in DifficultyReference }

SystemRankings(ratingSystem) ==
    { row.DifficultyRanking : row \in
        { x \in DifficultyReference : x.RatingSystem = ratingSystem } }

Min(S) == CHOOSE x \in S : \A y \in S : x <= y
Max(S) == CHOOSE x \in S : \A y \in S : x >= y

\* The text the difficulty filter adds to the join clause
DifficultyJoin == [rel |-> "l0, l, DifficultyReference ref", args |-> << >>]


\* ------------------------------------------------ processFilters: difficulty

Has(kw, key) == key \in DOMAIN kw

Get(kw, key) == IF key \in DOMAIN kw THEN kw[key] ELSE None

\* processFilters, the routedifficultylow / routedifficultyhigh block
DifficultyFilter(st, kw) ==
    IF Failed(st) \/ ~(Has(kw, "routedifficultylow") \/ Has(kw, "routedifficultyhigh"))
    THEN st
    ELSE
    LET routeDifficultyLow == Get(kw, "routedifficultylow")
        routeDifficultyHigh == Get(kw, "routedifficultyhigh")
        routeDifficultyPattern ==
            IF Truthy(routeDifficultyLow) THEN routeDifficultyLow ELSE routeDifficultyHigh
        st1 == AddLog(st, fetchRatingSystemDifficultiesLog)
        found == DetectRatingSystem(routeDifficultyPattern,
                                    fetchRatingSystemDifficulties, DetectionOrder)
        ratingSystem == found.ratingSystem
        \* the rows of the low query; fetchone()[0] raises TypeError on none
        lowRows == IF Truthy(routeDifficultyLow)
                   THEN RankingsOf(routeDifficultyLow, ratingSystem)
                   ELSE { Min(SystemRankings(ratingSystem)) }
        st2 == AddLog(st1, << Executed(IF Truthy(routeDifficultyLow)
                                       THEN "difficultyRanking" ELSE "minDifficultyRanking",
                                       {"routeDifficultyLow", "ratingSystem"}, {}) >>)
        highRows == IF Truthy(routeDifficultyHigh)
                    THEN RankingsOf(routeDifficultyHigh, ratingSystem)
                    ELSE { Max(SystemRankings(ratingSystem)) }
        st3 == AddLog(st2, << Executed(IF Truthy(routeDifficultyHigh)
                                       THEN "difficultyRanking" ELSE "maxDifficultyRanking",
                                       {"routeDifficultyHigh", "ratingSystem"}, {}) >>)
    IN  IF found.exc # "" THEN Raise(st1, found.exc, found.msg)
        ELSE IF lowRows = {}
        THEN Raise(st2, "TypeError", "'NoneType' object is not subscriptable")
        ELSE IF highRows = {}
        THEN Raise(st3, "TypeError", "'NoneType' object is not subscriptable")
        ELSE
        LET difficultyLow == CHOOSE x \in lowRows : TRUE
            difficultyHigh == CHOOSE x \in highRows : TRUE
            p1 == AddParam(st3, "difficultyHigh", difficultyHigh)
            p2 == AddParam(p1, "difficultyLow", difficultyLow)
            p3 == AddParam(p2, "ratingSystem", ratingSystem)
            j == AddJoin(p3, DifficultyJoin)
            w1 == AddWhere(j, Cmp("ref.DifficultyRanking", "<=", "difficultyHigh"))
            w2 == AddWhere(w1, Cmp("ref.DifficultyRanking", ">=", "difficultyLow"))
        IN  AddWhere(w2, Cmp("ref.RatingSystem", "=", "ratingSystem"))

\* ------------------------------------------------------ processFilters: type

\* The type tests with no exclusion in any clause
TypeClausesLikeOnly ==
    [i \in 1..9 |->
        LET names == << <<"t","r","a","d">>, <<"a","i","d">>, <<"s","p","o","r","t">>,
                        <<"b","o","u","l","d","e","r">>,
                        <<"t","o","p"," ","r","o","p","e">>,
                        <<"a","l","p","i","n","e">>, <<"i","c","e">>,
                        <<"s","n","o","w">>, <<"m","i","x","e","d">> >>
        IN  [name |-> names[i], like |-> <<"%">> \o names[i] \o <<"%">>,
             notlike |-> << >>]]

\* The type block's tests, in the order written: the name looked for in the
\* lower-cased criterion, and the clause added for it (the like pattern the
\* route's lower-cased Type must match and those it must not match).
TypeClauses == <<
    [name |-> <<"t","r","a","d">>,
        like |-> <<"%","t","r","a","d","%">>,
        notlike |-> << <<"%","a","i","d","%">>, <<"%","m","i","x","e","d","%">>, <<"%","i","c","e","%">>, <<"%","s","n","o","w","%">> >>],
    [name |-> <<"a","i","d">>,
        like |-> <<"%","a","i","d","%">>,
        notlike |-> <<  >>],
    [name |-> <<"s","p","o","r","t">>,
        like |-> <<"%","s","p","o","r","t","%">>,
        notlike |-> << <<"%","t","r","a","d","%">>, <<"%","a","i","d","%">>, <<"%","m","i","x","e","d","%">>, <<"%","i","c","e","%">>, <<"%","s","n","o","w","%">> >>],
    [name |-> <<"b","o","u","l","d","e","r">>,
        like |-> <<"%","b","o","u","l","d","e","r","%">>,
        notlike |-> << <<"%","t","r","a","d","%">> >>],
    [name |-> <<"t","o","p"," ","r","o","p","e">>,
        like |-> <<"%","t","o","p"," ","r","o","p","e","%">>,
        notlike |-> <<  >>],
    [name |-> <<"a","l","p","i","n","e">>,
        like |-> <<"%","a","l","p","i","n","e","%">>,
        notlike |-> <<  >>],
    [name |-> <<"i","c","e">>,
        like |-> <<"%","i","c","e","%">>,
        notlike |-> <<  >>],
    [name |-> <<"s","n","o","w">>,
        like |-> <<"%","s","n","o","w","%">>,
        notlike |-> <<  >>],
    [name |-> <<"m","i","x","e","d">>,
        like |-> <<"%","m","i","x","e","d","%">>,
        notlike |-> <<  >>] >>

TypeClause(alts) == [t |-> "type", alts |-> alts]

RECURSIVE SelectedTypeClauses(_, _)
SelectedTypeClauses(type, clauses) ==
    IF Len(clauses) = 0 THEN << >>
    ELSE (IF Contains(type, clauses[1].name) THEN << clauses[1] >> ELSE << >>)
         \o SelectedTypeClauses(type, Tail(clauses))

\* The type block adding an empty disjunction instead of raising
TypeFilterNoCheck(st, kw) ==
    IF Failed(st) \/ ~Has(kw, "type") THEN st
    ELSE AddWhere(st, TypeClause(SelectedTypeClauses(LowerStr(kw["type"]), TypeClauses)))

\* processFilters, the type block
TypeFilter(st, kw) ==
    IF Failed(st) \/ ~Has(kw, "type") THEN st
    ELSE
    LET type == LowerStr(kw["type"])
        typeWhereClause == SelectedTypeClauses(type, TypeClauses)
    IN  IF typeWhereClause = << >>
        THEN Raise(st, "ValueError", "Invalid route type specified")
        ELSE AddWhere(st, TypeClause(typeWhereClause))

\* -------------------------------------------------- processFilters: severity

\* str.upper() on one character
UpperChar(c) ==
    IF \E i \in 1..26 : LowerLetters[i] = c
    THEN UpperLetters[CHOOSE i \in 1..26 : LowerLetters[i] = c]
    ELSE c

\* str.upper()
UpperStr(s) == [i \in 1..Len(s) |-> UpperChar(s[i])]

\* "select SeverityRanking from SeverityReference where Severity = %(s)s"
SeverityRankingsOf(token) ==
    { row.SeverityRanking : row \in { x \in SeverityReference : x.Severity = token } }

SeverityJoin == [rel |-> "SeverityReference sev", args |-> << >>]

\* The severitythreshold block keeping only the routes of the threshold's
\* own severity
SeverityFilterExact(st, kw) ==
    IF Failed(st) \/ ~Has(kw, "severitythreshold") THEN st
    ELSE
    LET severityThreshold == UpperStr(kw["severitythreshold"])
        st1 == AddLog(st, << Executed("severityRanking", {"severityThreshold"}, {}) >>)
        rows == SeverityRankingsOf(severityThreshold)
    IN  IF rows = {}
        THEN Raise(st1, "TypeError", "'NoneType' object is not subscriptable")
        ELSE
        LET severity == CHOOSE x \in rows : TRUE
            j == AddJoin(st1, SeverityJoin)
            p == AddParam(j, "severity", severity)
        IN  AddWhere(p, Cmp("sev.SeverityRanking", "=", "severity"))

\* processFilters, the severitythreshold block
SeverityFilter(st, kw) ==
    IF Failed(st) \/ ~Has(kw, "severitythreshold") THEN st
    ELSE
    LET severityThreshold == UpperStr(kw["severitythreshold"])
        st1 == AddLog(st, << Executed("severityRanking", {"severityThreshold"}, {}) >>)
        rows == SeverityRankingsOf(severityThreshold)
    IN  IF rows = {}
        THEN Raise(st1, "TypeError", "'NoneType' object is not subscriptable")
        ELSE
        LET severity == CHOOSE x \in rows : TRUE
            j == AddJoin(st1, SeverityJoin)
            p == AddParam(j, "severity", severity)
        IN  AddWhere(p, Cmp("sev.SeverityRanking", "<=", "severity"))

\* ---------------------------------------------- processFilters: numeric ranges

\* The marker test at the head of a numeric block: TRUE for >=, FALSE for <=
\* and None for = (read only by the pitches and grade blocks).
GreaterThan(text, withEquals) ==
    IF EndsWith(text, "-") THEN "False"
    ELSE IF withEquals /\ EndsWith(text, "=") THEN "None"
    ELSE "True"

\* text.strip("-").strip("+"), and .strip("=") in the pitches and grade blocks
StripMarkers(text, withEquals) ==
    LET a == StripChars(StripChars(text, {"-"}), {"+"})
    IN  IF withEquals THEN StripChars(a, {"="}) ELSE a

\* The comparison a block adds for its marker
MarkerOp(greaterThan) ==
    IF greaterThan = "True" THEN ">="
    ELSE IF greaterThan = "None" THEN "="
    ELSE "<="

\* One numeric block of processFilters: key is the lower-cased criterion, name
\* the parameter, col the column compared, label the word of the error
\* message, join the text added to the join clause (<<>> for none).
NumericFilter(st, kw, key, name, col, withEquals, label, join) ==
    IF Failed(st) \/ ~Has(kw, key) THEN st
    ELSE
    LET text == StripSpace(LowerStr(kw[key]))
        greaterThan == GreaterThan(text, withEquals)
        number == ParseFloat(StripMarkers(text, withEquals))
    IN  IF number = << >>
        THEN Raise(st, "ValueError", label)
        ELSE
        LET j == [st EXCEPT !.joinClause = @ \o join]
            p == AddParam(j, name, number[1])
        IN  AddWhere(p, Cmp(col, MarkerOp(greaterThan), name))

ElevationJoin == [rel |-> "Areas e", args |-> << >>]

\* The height block with the number concatenated into the where text
HeightFilterInlined(st, kw) ==
    IF Failed(st) \/ ~Has(kw, "height") THEN st
    ELSE
    LET text == StripSpace(LowerStr(kw["height"]))
        number == ParseFloat(StripMarkers(text, FALSE))
    IN  IF number = << >>
        THEN Raise(st, "ValueError", "Height is not a valid number.")
        ELSE AddWhere(st, [t |-> "cmp", col |-> "r.Height",
                           op |-> MarkerOp(GreaterThan(text, FALSE)),
                           arg |-> Literal(number[1])])

HeightFilter(st, kw) ==
    NumericFilter(st, kw, "height", "height", "r.Height", FALSE,
                  "Height is not a valid number.", << >>)

PitchesFilter(st, kw) ==
    NumericFilter(st, kw, "pitches", "pitches", "r.Pitches", TRUE,
                  "Pitches is not a valid number.", << >>)

GradeFilter(st, kw) ==
    NumericFilter(st, kw, "grade", "grade", "r.Grade", TRUE,
                  "Grade is not a valid number.", << >>)

AverageRatingFilter(st, kw) ==
    NumericFilter(st, kw, "averagerating", "averageRating", "r.AverageRating", FALSE,
                  "Average rating is not a valid number.", << >>)

VoteCountFilter(st, kw) ==
    NumericFilter(st, kw, "votecount", "voteCount", "r.VoteCount", FALSE,
                  "Vote count is not a valid number.", << >>)

ElevationFilter(st, kw) ==
    NumericFilter(st, kw, "elevation", "elevation", "e.Elevation", FALSE,
                  "Elevation is not a valid number.", << ElevationJoin >>)


\* ------------------------------------------------ processFilters: geospatial

\* The Earth's radius in tenths of a unit: 6371.0 km and 3958.8 miles
EarthRadiusKm == 63710
EarthRadiusMiles == 39588

DistanceUnitNames == { <<"m","i">>, <<"m","i","l","e","s">>, <<"k","m">>, <<"k","i","l","o","m","e","t","e","r","s">> }
KilometerNames == { <<"k","m">>, <<"k","i","l","o","m","e","t","e","r","s">> }

\* "select a.Latitude, a.Longitude from Routes r inner join Areas a on
\* a.AreaId = r.AreaId where r.RouteId = %(routeId)s or a.AreaId =
\* %(routeId)s": the coordinate pairs of the rows found
ProximityRows(routeId) ==
    { [lat |-> a.Latitude, lon |-> a.Longitude] : a \in
        { x \in Areas : \E r \in Routes :
            /\ r.AreaId = x.AreaId
            /\ (r.RouteId = routeId \/ x.AreaId = routeId) } }

GeoJoin ==
    [rel |-> "Areas a, d",
     args |-> << Placeholder("earthRadius"), Placeholder("latitude"),
                 Placeholder("longitude") >>]

\* The location part of the geospatial block: the criteria and the plan so
\* far in, the plan with `point` set to <<>> (latitude is None) or to the
\* resolved <<[lat, lon]>> out.
CityStateLocation(st, kw) ==
    IF ~(Has(kw, "city") \/ Has(kw, "state")) THEN [st |-> st, point |-> << >>]
    ELSE IF ~(Has(kw, "city") /\ Has(kw, "state") /\ Has(kw, "radius"))
    THEN [st |-> Raise(st, "ValueError",
                       "Error: All three of city, state, and radius must be specified."),
          point |-> << >>]
    ELSE
    LET st1 == AddLog(st, << Geocoded(kw["city"], kw["state"]) >>)
        cityStateLocation == Geocode(kw["city"], kw["state"])
    IN  IF cityStateLocation = << >>
        THEN [st |-> Raise(st1, "ValueError",
                           "Could not locate coordinates for city state combination"),
              point |-> << >>]
        ELSE [st |-> st1, point |-> cityStateLocation]

\* The latitude/longitude block read even when city/state gave a location
LatitudeLongitudeLocationOverrides(loc, kw) ==
    IF Failed(loc.st) \/ ~(Has(kw, "latitude") \/ Has(kw, "longitude"))
    THEN loc
    ELSE IF ~(Has(kw, "latitude") /\ Has(kw, "longitude") /\ Has(kw, "radius"))
    THEN [loc EXCEPT !.st = Raise(@, "ValueError",
              "Error: All three of latitude, longitude, and radius must be specified.")]
    ELSE IF ParseFloat(kw["latitude"]) = << >> \/ ParseFloat(kw["longitude"]) = << >>
    THEN [loc EXCEPT !.st = Raise(@, "ValueError", "could not convert string to float")]
    ELSE [loc EXCEPT !.point = << [lat |-> ParseFloat(kw["latitude"])[1],
                                   lon |-> ParseFloat(kw["longitude"])[1]] >>]

LatitudeLongitudeLocation(loc, kw) ==
    IF Failed(loc.st) \/ loc.point # << >>
       \/ ~(Has(kw, "latitude") \/ Has(kw, "longitude"))
    THEN loc
    ELSE IF ~(Has(kw, "latitude") /\ Has(kw, "longitude") /\ Has(kw, "radius"))
    THEN [loc EXCEPT !.st = Raise(@, "ValueError",
              "Error: All three of latitude, longitude, and radius must be specified.")]
    ELSE
    LET latitude == ParseFloat(kw["latitude"])
        longitude == ParseFloat(kw["longitude"])
    IN  IF latitude = << >> \/ longitude = << >>
        THEN [loc EXCEPT !.st = Raise(@, "ValueError", "could not convert string to float")]
        ELSE [loc EXCEPT !.point = << [lat |-> latitude[1], lon |-> longitude[1]] >>]

ProximityRouteLocation(loc, kw) ==
    IF Failed(loc.st) \/ loc.point # << >> \/ ~Has(kw, "proximityroute")
    THEN loc
    ELSE IF ~Has(kw, "radius")
    THEN [loc EXCEPT !.st = Raise(@, "ValueError",
              "Error: Both a proximity route URL and radius must be specified.")]
    ELSE
    LET digits == FirstDigitRun(kw["proximityroute"])
        routeId == DigitsValue(digits, 0)
        st1 == AddLog(loc.st, << Executed("proximityRoute", {"routeId"}, {}) >>)
        rows == ProximityRows(routeId)
        row == CHOOSE x \in rows : TRUE
    IN  IF digits = << >>
        \* the message of the ValueError names routeURL, which is not defined
        THEN [loc EXCEPT !.st = Raise(@, "NameError", "name 'routeURL' is not defined")]
        ELSE IF rows = {}
        THEN [loc EXCEPT !.st = Raise(st1, "TypeError", "'NoneType' object is not iterable")]
        ELSE IF row.lat = << >> \/ row.lon = << >>
        THEN [loc EXCEPT !.st = Raise(st1, "TypeError", "float() argument must be a string or a number")]
        ELSE [st |-> st1, point |-> << [lat |-> row.lat[1], lon |-> row.lon[1]] >>]

\* The geospatial block from the radius on, without the predicate on the
\* generic area
GeoRadiusWithGeneric(loc, kw) ==
    LET st1 == loc.st
        text == StripSpace(LowerStr(kw["radius"]))
        radius == ParseFloat(StripChars(StripChars(text, {"-"}), {"+"}))
        distanceUnits == IF Has(kw, "distanceunits")
                         THEN LowerStr(kw["distanceunits"])
                         ELSE <<"m","i","l","e","s">>
        p1 == AddParam(st1, "earthRadius", IF distanceUnits \in KilometerNames
                                           THEN EarthRadiusKm ELSE EarthRadiusMiles)
        p2 == AddParam(p1, "latitude", loc.point[1].lat)
        p3 == AddParam(p2, "longitude", loc.point[1].lon)
        j == AddJoin(p3, GeoJoin)
        w1 == AddWhere(j, [t |-> "notnull", col |-> "a.Latitude"])
        w2 == AddWhere(w1, [t |-> "notnull", col |-> "a.Longitude"])
        p4 == AddParam(w2, "radius", radius[1])
    IN  IF Failed(st1) THEN st1
        ELSE IF loc.point = << >>
        THEN Raise(st1, "ValueError", "You must specify a way to obtain latitude/longitude.")
        ELSE IF distanceUnits \notin DistanceUnitNames
        THEN Raise(st1, "ValueError", "distanceUnits must be one of the following")
        ELSE IF radius = << >>
        THEN Raise(j, "ValueError", "Radius is not a valid number.")
        ELSE AddWhere(p4, Cmp("d.Distance", IF EndsWith(text, "+") THEN ">=" ELSE "<=", "radius"))

\* processFilters, the geospatial block from the radius on
GeoRadius(loc, kw) ==
    LET st1 == loc.st
        text == StripSpace(LowerStr(kw["radius"]))
        greaterThan == EndsWith(text, "+")
        radius == ParseFloat(StripChars(StripChars(text, {"-"}), {"+"}))
        distanceUnits == IF Has(kw, "distanceunits")
                         THEN LowerStr(kw["distanceunits"])
                         ELSE <<"m","i","l","e","s">>
        earthRadius == IF distanceUnits \in KilometerNames
                       THEN EarthRadiusKm ELSE EarthRadiusMiles
        p1 == AddParam(st1, "earthRadius", earthRadius)
        p2 == AddParam(p1, "latitude", loc.point[1].lat)
        p3 == AddParam(p2, "longitude", loc.point[1].lon)
        j == AddJoin(p3, GeoJoin)
        w1 == AddWhere(j, [t |-> "notnull", col |-> "a.Latitude"])
        w2 == AddWhere(w1, [t |-> "notnull", col |-> "a.Longitude"])
        w3 == AddWhere(w2, [t |-> "neq", col |-> "a.AreaId", lit |-> GenericAreaId])
        p4 == AddParam(w3, "radius", radius[1])
    IN  IF Failed(st1) THEN st1
        ELSE IF loc.point = << >>
        THEN Raise(st1, "ValueError", "You must specify a way to obtain latitude/longitude.")
        ELSE IF distanceUnits \notin DistanceUnitNames
        THEN Raise(st1, "ValueError", "distanceUnits must be one of the following")
        ELSE IF radius = << >>
        THEN Raise(j, "ValueError", "Radius is not a valid number.")
        ELSE AddWhere(p4, Cmp("d.Distance", IF greaterThan THEN ">=" ELSE "<=", "radius"))

\* The geospatial block entered only when a radius is given
GeoFilterRadiusOnly(st, kw) ==
    IF Failed(st) \/ ~Has(kw, "radius")
    THEN st
    ELSE GeoRadius(ProximityRouteLocation(
                       LatitudeLongitudeLocation(CityStateLocation(st, kw), kw), kw), kw)

\* processFilters, the geospatial block
GeoFilter(st, kw) ==
    IF Failed(st)
       \/ ~(\E key \in {"city", "state", "latitude", "longitude", "radius", "proximityroute"} :
                Has(kw, key))
    THEN st
    ELSE GeoRadius(ProximityRouteLocation(
                       LatitudeLongitudeLocation(CityStateLocation(st, kw), kw), kw), kw)

\* ------------------------------------------------------------ processFilters

\* processFilters from its second statement on: the blocks in the order
\* written, each given the plan the blocks before it left and skipped once
\* an exception is raised
CompileBlocks(kw) ==
    GeoFilter(
      ElevationFilter(
        VoteCountFilter(
          AverageRatingFilter(
            GradeFilter(
              PitchesFilter(
                HeightFilter(
                  SeverityFilter(
                    TypeFilter(
                      DifficultyFilter(NewPlan, kw),
                    kw),
                  kw),
                kw),
              kw),
            kw),
          kw),
        kw),
      kw),
    kw)

\* kwargs = {key.lower(): value for key, value in kwargs.items()} and the
\* blocks that follow
CompileFilters(kwargs) == CompileBlocks(LowerKeys(kwargs))

\* processFilters adding a filter of its own when there are no criteria
processFiltersNeverEmpty(kwargs) ==
    IF DOMAIN kwargs = {}
    THEN AddWhere(NewPlan, [t |-> "notnull", col |-> "r.Height"])
    ELSE CompileFilters(kwargs)

\* processFilters(**kwargs): the plan, or the exception raised.  With no
\* criteria it returns "", "where true" and None for the parameters, which
\* the model writes as the empty mapping.
processFilters(kwargs) ==
    IF DOMAIN kwargs = {} THEN NewPlan ELSE CompileFilters(kwargs)

\* validateKeywordArgs(**kwargs): the keywords that are not allowed
InvalidKeywords(kwargs) ==
    { keyword \in DOMAIN kwargs :
        KeyLower(keyword) \notin { KeyLower(a) : a \in allowedKeywords } }

\* validateKeywordArgs naming only one of the invalid keywords
validateKeywordArgsFirstOnly(kw) ==
    IF InvalidKeywords(kw) # {}
    THEN [exc |-> "TypeError", msg |-> "Invalid keyword arguments specified for fetchRoutes",
          names |-> { CHOOSE k \in InvalidKeywords(kw) : TRUE }]
    ELSE [exc |-> "", msg |-> "", names |-> {}]

\* validateKeywordArgs(**kwargs): "" or the TypeError, whose message joins
\* every invalid keyword
validateKeywordArgs(kwargs) ==
    IF InvalidKeywords(kwargs) # {}
    THEN [exc |-> "TypeError", msg |-> "Invalid keyword arguments specified for fetchRoutes",
          names |-> InvalidKeywords(kwargs)]
    ELSE [exc |-> "", msg |-> "", names |-> {}]

\* --------------------------------------------------------- query execution

\* The recursive SubAreas query (union all): how many times the area appears
\* in it, once for itself if its lower-cased name is like the pattern and
\* once for every appearance of its parent.  Areas is a forest.
RECURSIVE SubAreasCount(_, _)
SubAreasCount(areaId, pattern) ==
    LET here == { a \in Areas : a.AreaId = areaId }
        area == CHOOSE a \in here : TRUE
    IN  IF here = {} THEN 0
        ELSE (IF Like(LowerStr(area.AreaName), pattern) THEN 1 ELSE 0)
             + (IF area.ParentAreaId = << >> THEN 0
                ELSE SubAreasCount(area.ParentAreaId[1], pattern))

\* The candidates of the lateral joins l0 and l: the words of Difficulty_ADL
\* and then Difficulty_YDS, each with its position, 'Steep', 'Mod.' and
\* 'Easy' renamed
SnowName(d) ==
    CASE d = "Steep" -> "Steep Snow"
      [] d = "Mod."  -> "Mod. Snow"
      [] d = "Easy"  -> "Easy Snow"
      [] OTHER       -> d

DifficultyCandidates(r) ==
    LET words == r.Difficulty_ADL \o << r.Difficulty_YDS >>
    IN  { [idx |-> i, Difficulty |-> SnowName(words[i])] : i \in 1..Len(words) }

NoRow == [none |-> TRUE]

\* The rows the plan's joins make of one route: one record per combination
\* of joined rows
JoinedRows(r, joinClause) ==
    LET rels == { joinClause[i].rel : i \in 1..Len(joinClause) }
        refs == IF DifficultyJoin.rel \in rels
                THEN UNION { { [l |-> c, ref |-> x] :
                                 x \in { y \in DifficultyReference :
                                           /\ c.Difficulty # None
                                           /\ y.Difficulty = c.Difficulty } } :
                             c \in DifficultyCandidates(r) }
                ELSE { NoRow }
        sevs == IF SeverityJoin.rel \in rels
                THEN { x \in SeverityReference :
                         x.Severity = IF r.Severity = NullText THEN <<"G">> ELSE r.Severity }
                ELSE { NoRow }
        es ==   IF ElevationJoin.rel \in rels
                THEN { x \in Areas : x.AreaId = r.AreaId }
                ELSE { NoRow }
        as ==   IF GeoJoin.rel \in rels
                THEN { x \in Areas : x.AreaId = r.AreaId }
                ELSE { NoRow }
    IN  { [r |-> r, lref |-> lr, sev |-> s, e |-> e, a |-> a] :
            lr \in refs, s \in sevs, e \in es, a \in as }

Abs(x) == IF x < 0 THEN 0 - x ELSE x

\* The derived column d.Distance.  The great-circle distance of the query is
\* replaced by the length of the way along a meridian and a parallel, in
\* whole units of the chosen Earth radius (one degree is radius * pi / 180);
\* NULL when the area has no coordinates.
Distance(a, params) ==
    IF a.Latitude = << >> \/ a.Longitude = << >> THEN << >>
    ELSE << (params["earthRadius"] * 175
             * (Abs(a.Latitude[1] - params["latitude"])
                + Abs(a.Longitude[1] - params["longitude"]))) \div 100000 >>

\* A column of a joined row, as a nullable value
ColumnValue(row, col, params) ==
    CASE col = "r.Height"              -> row.r.Height
      [] col = "r.Pitches"             -> row.r.Pitches
      [] col = "r.Grade"               -> row.r.Grade
      [] col = "r.AverageRating"       -> row.r.AverageRating
      [] col = "r.VoteCount"           -> row.r.VoteCount
      [] col = "e.Elevation"           -> row.e.Elevation
      [] col = "a.Latitude"            -> row.a.Latitude
      [] col = "a.Longitude"           -> row.a.Longitude
      [] col = "a.AreaId"              -> << row.a.AreaId >>
      [] col = "d.Distance"            -> Distance(row.a, params)
      [] col = "ref.DifficultyRanking" -> << row.lref.ref.DifficultyRanking >>
      [] col = "ref.RatingSystem"      -> << row.lref.ref.RatingSystem >>
      [] col = "sev.SeverityRanking"   -> << row.sev.SeverityRanking >>

\* The value the executed query has where the text has arg
ArgValue(arg, params) == IF arg.k = "ph" THEN params[arg.v] ELSE arg.v

Compare(op, x, y) ==
    CASE op = ">=" -> x >= y
      [] op = "<=" -> x <= y
      [] op = "="  -> x = y

\* lower(r.Type) like ... and lower(r.Type) not like ...
TypeAlternativeHolds(type, alt) ==
    /\ type # NullText
    /\ Like(LowerStr(type), alt.like)
    /\ \A i \in 1..Len(alt.notlike) : ~Like(LowerStr(type), alt.notlike[i])

\* One clause of the where text on one joined row (a comparison with NULL
\* is not true)
ClauseHolds(clause, row, params) ==
    CASE clause.t = "true"    -> TRUE
      [] clause.t = "cmp"     ->
            LET v == ColumnValue(row, clause.col, params)
            IN  v # << >> /\ Compare(clause.op, v[1], ArgValue(clause.arg, params))
      [] clause.t = "notnull" -> ColumnValue(row, clause.col, params) # << >>
      [] clause.t = "neq"     -> ColumnValue(row, clause.col, params) # << clause.lit >>
      [] clause.t = "type"    ->
            \E i \in 1..Len(clause.alts) : TypeAlternativeHolds(row.r.Type, clause.alts[i])

\* The joined rows of a route that pass the where text
PlanRows(r, joinClause, whereClause, params) ==
    { row \in JoinedRows(r, joinClause) :
        \A i \in 1..Len(whereClause) : ClauseHolds(whereClause[i], row, params) }

\* How many rows the query has for a route before it groups them: the rows of
\* SubAreas (when the query has them), of Areas a0 and of the plan's joins
RouteRowCount(r, query, params) ==
    LET subAreas == IF query.subAreas = << >> THEN 1
                    ELSE SubAreasCount(r.AreaId, ArgValue(query.subAreas[1], params))
        a0 == IF query.select = "routes"
              THEN Cardinality({ a \in Areas : a.AreaId = r.AreaId })
              ELSE 1
    IN  subAreas * a0
        * Cardinality(PlanRows(r, query.joinClause, query.whereClause, params))

\* string_agg(c.CommentBody, ...) over the group of a route: how many times
\* each comment of the route is in the text
Comments(r, query, params) ==
    [c \in { x \in RouteComments : x.RouteId = r.RouteId } |->
        RouteRowCount(r, query, params)]

RouteById(id) == CHOOSE r \in Routes : r.RouteId = id

\* The record of the group of a route (the columns the model keeps)
RouteRecord(r, query, params) ==
    [RouteId |-> r.RouteId, AreaId |-> r.AreaId, Comments |-> Comments(r, query, params)]

\* order by r.RouteId
RECURSIVE Ascending(_)
Ascending(S) ==
    IF S = {} THEN << >>
    ELSE LET m == CHOOSE x \in S : \A y \in S : x.RouteId <= y.RouteId
         IN  << m >> \o Ascending(S \ {m})

\* The query of fetchRoutes without its group by: one record per joined row
ExecuteRoutesUngrouped(query, params) ==
    Ascending(UNION { { [RouteId |-> r.RouteId, AreaId |-> r.AreaId,
                         Comments |-> Comments(r, query, params), row |-> i] :
                        i \in 1..RouteRowCount(r, query, params) } : r \in Routes })

\* cursor.execute(query, queryParameters) and fetchall() for the query of
\* fetchRoutes: one record per route with a row, ordered by RouteId
ExecuteRoutes(query, params) ==
    Ascending({ RouteRecord(r, query, params) : r \in
                  { x \in Routes : RouteRowCount(x, query, params) > 0 } })

\* order by r.RouteId, rr.UserId, rr.Rating, rr.RatingId
RatingBefore(x, y) ==
    \/ x.RouteId < y.RouteId
    \/ x.RouteId = y.RouteId /\ x.UserId[1] < y.UserId[1]
    \/ x.RouteId = y.RouteId /\ x.UserId[1] = y.UserId[1] /\ x.Rating < y.Rating
    \/ /\ x.RouteId = y.RouteId /\ x.UserId[1] = y.UserId[1] /\ x.Rating = y.Rating
       /\ x.RatingId <= y.RatingId

\* select r.RouteId, rr.UserId, rr.Rating
RatingRecord(rr) == [RouteId |-> rr.RouteId, UserId |-> rr.UserId[1], Rating |-> rr.Rating]

RECURSIVE RatingsInOrder(_)
RatingsInOrder(S) ==
    IF S = {} THEN << >>
    ELSE LET m == CHOOSE x \in S : \A y \in S : RatingBefore(x, y)
         IN  << RatingRecord(m) >> \o RatingsInOrder(S \ {m})

\* cursor.execute(query, queryParameters) and fetchall() for the query of
\* fetchRouteRatings: one record per rating with a user, of a route with a row
ExecuteRatings(query, params) ==
    RatingsInOrder({ rr \in RouteRatings :
                       /\ rr.UserId # << >>
                       /\ \E r \in Routes :
                            r.RouteId = rr.RouteId /\ RouteRowCount(r, query, params) > 0 })

\* ------------------------------------------- fetchRoutes, fetchRouteRatings

\* kwargs["parentAreaName"] if "parentareaname" in {key.lower() for key in
\* kwargs.keys()} else None: <<>> for None, and a KeyError when the name is
\* there in another spelling
ParentAreaName(kwargs) ==
    IF "parentareaname" \in { KeyLower(k) : k \in DOMAIN kwargs }
    THEN IF "parentAreaName" \in DOMAIN kwargs
         THEN [exc |-> "", value |-> << kwargs["parentAreaName"] >>]
         ELSE [exc |-> "KeyError", value |-> << >>]
    ELSE [exc |-> "", value |-> << >>]

\* The query text without the SubAreas query, whatever the criteria
BuildQueryNoSubAreas(select, wildcard, kwargs, plan) ==
    [query |-> [select |-> select, subAreas |-> << >>,
                joinClause |-> plan.joinClause,
                whereClause |-> plan.whereClause],
     queryParameters |-> plan.queryParameters]

\* The query text of fetchRoutes ("routes") or fetchRouteRatings ("ratings")
\* around the plan's join and where text, with the SubAreas query in front
\* when there is a parentAreaName, and the parameters it is executed with.
\* wildcard is what the method puts around the lower-cased name: "%" in
\* fetchRoutes, "%%" in fetchRouteRatings.
BuildQuery(select, wildcard, kwargs, plan) ==
    LET parentAreaName == ParentAreaName(kwargs).value
    IN  IF parentAreaName = << >>
        THEN [query |-> [select |-> select, subAreas |-> << >>,
                         joinClause |-> plan.joinClause,
                         whereClause |-> plan.whereClause],
              queryParameters |-> plan.queryParameters]
        ELSE [query |-> [select |-> select,
                         subAreas |-> << Placeholder("parentAreaName") >>,
                         joinClause |-> plan.joinClause,
                         whereClause |-> plan.whereClause],
              queryParameters |->
                  Put(plan.queryParameters, "parentAreaName",
                      wildcard \o LowerStr(parentAreaName[1]) \o wildcard)]

fetchRoutesQuery(kwargs, plan) == BuildQuery("routes", <<"%">>, kwargs, plan)

\* The query of fetchRouteRatings written without the plan's joins and where
\* text
fetchRouteRatingsQueryNoPlan(kwargs, plan) ==
    BuildQuery("ratings", <<"%", "%">>, kwargs, NewPlan)

fetchRouteRatingsQuery(kwargs, plan) == BuildQuery("ratings", <<"%", "%">>, kwargs, plan)

\* What a call ends with: the exception raised ("" for none), the names its
\* message lists, and the records returned
Outcome(exc, msg, names, rows) == [exc |-> exc, msg |-> msg, names |-> names, rows |-> rows]

NoOutcome == Outcome("", "", {}, << >>)

\* fetchRoutes(**kwargs) and fetchRouteRatings(**kwargs) from call to return
CallOutcome(m, kw) ==
    LET v == validateKeywordArgs(kw)
        st == processFilters(kw)
        q == IF m = "fetchRoutes" THEN fetchRoutesQuery(kw, st)
             ELSE fetchRouteRatingsQuery(kw, st)
    IN  IF v.exc # "" THEN Outcome(v.exc, v.msg, v.names, << >>)
        ELSE IF Failed(st) THEN Outcome(st.exc, st.msg, {}, << >>)
        ELSE IF ParentAreaName(kw).exc # ""
        THEN Outcome(ParentAreaName(kw).exc, "parentAreaName", {}, << >>)
        ELSE Outcome("", "", {},
                     IF m = "fetchRoutes"
                     THEN ExecuteRoutes(q.query, q.queryParameters)
                     ELSE ExecuteRatings(q.query, q.queryParameters))

fetchRoutes(kw) == CallOutcome("fetchRoutes", kw)

fetchRouteRatings(kw) == CallOutcome("fetchRouteRatings", kw)

\* ------------------------------------------------------ the calls modelled

DifficultyTokens == { row.Difficulty : row \in DifficultyReference } \cup { "", "5.15z" }

\* Every mapping of one or both difficulty bounds
DifficultyKwargs ==
    { [k \in {"routeDifficultyLow"} |-> low] : low \in DifficultyTokens }
    \cup { [k \in {"routeDifficultyHigh"} |-> high] : high \in DifficultyTokens }
    \cup { [k \in {"routeDifficultyLow", "routeDifficultyHigh"} |->
              IF k = "routeDifficultyLow" THEN b[1] ELSE b[2]] :
           b \in DifficultyTokens \X DifficultyTokens }

TypeTexts ==
    { <<"T","r","a","d">>,
      <<"S","p","o","r","t",","," ","T","r","a","d">>,
      <<"a","i","d">>,
      <<"T","R","A","D">>,
      <<"B","o","u","l","d","e","r">>,
      <<"T","o","p"," ","R","o","p","e">>,
      <<"A","l","p","i","n","e",","," ","I","c","e">>,
      <<"s","n","o","w">>,
      <<"M","i","x","e","d">>,
      <<"T","R">>,
      << >>,
      <<"t","r","a","d","s","p","o","r","t">>,
      <<"t","o","p","-","r","o","p","e">> }

SeverityTexts ==
    { <<"G">>,
      <<"p","g">>,
      <<"P","G","1","3">>,
      <<"P","g","1","3">>,
      <<"r">>,
      <<"X">>,
      <<"X","X">>,
      << >> }

TypeKwargs ==
    { [k \in {"type"} |-> t] : t \in TypeTexts }
    \cup { [k \in {"severityThreshold"} |-> s] : s \in SeverityTexts }
    \cup { [k \in {"type", "severityThreshold"} |-> IF k = "type" THEN b[1] ELSE b[2]] :
           b \in TypeTexts \X SeverityTexts }

NumericTexts ==
    { <<"3">>,
      <<"3","+">>,
      <<"3","-">>,
      <<"3","=">>,
      <<"-","3">>,
      <<"-","3","+">>,
      <<"-","3","-">>,
      <<"+","3">>,
      <<"1","2">>,
      <<" ","4"," ">>,
      <<"3","+","-">>,
      <<"3","-","+">>,
      <<"3"," ","+">>,
      <<"x">>,
      << >>,
      <<"=","3">>,
      <<"3","=","=">>,
      <<"-","3","=">> }

NumericKeys == {"height", "pitches", "grade", "averageRating", "voteCount", "elevation"}

NumericKwargs ==
    { [k \in {key} |-> text] : key \in NumericKeys, text \in NumericTexts }

\* One value for every criterion, for the mappings that mix criteria
SampleValue(key) ==
    CASE key = "parentareaname"      -> <<"R","e","d">>
      [] key = "routedifficultylow"  -> "5.8"
      [] key = "routedifficultyhigh" -> "5.9"
      [] key = "type"                -> <<"S","p","o","r","t",","," ","T","r","a","d">>
      [] key = "severitythreshold"   -> <<"P","G","1","3">>
      [] key = "height"              -> <<"4","+">>
      [] key = "pitches"             -> <<"1","=">>
      [] key = "grade"               -> <<"4","-">>
      [] key = "averagerating"       -> <<"3">>
      [] key = "votecount"           -> <<"4","+">>
      [] key = "elevation"           -> <<"6">>
      [] key = "city"                -> <<"B","o","u","l","d","e","r">>
      [] key = "state"               -> <<"C","o","l","o","r","a","d","o">>
      [] key = "latitude"            -> <<"4">>
      [] key = "longitude"           -> <<"2">>
      [] key = "radius"              -> <<"7","0">>
      [] key = "proximityroute"      -> <<"r","o","u","t","e","/","1","0","1","/","x">>
      [] key = "distanceunits"       -> <<"K","M">>
      [] OTHER                       -> <<"1">>

\* The subsets of S with at most n elements
RECURSIVE SubsetsUpTo(_, _)
SubsetsUpTo(S, n) ==
    IF n = 0 THEN { {} }
    ELSE LET smaller == SubsetsUpTo(S, n - 1)
         IN  smaller \cup { P \cup {x} : P \in smaller, x \in S }

\* Every mapping of at most MaxCriteria spelled names, no two of them
\* spellings of one name, each with its sample value
MixedKwargs ==
    { [k \in keys |-> SampleValue(KeyLower(k))] :
        keys \in { K \in SubsetsUpTo(KeyNames, MaxCriteria) :
                     \A a, b \in K : a # b => KeyLower(a) # KeyLower(b) } }

\* The criteria of the geospatial block, each absent or one of a few values
GeoValues(key) ==
    CASE key = "city"           -> { <<"B","o","u","l","d","e","r">>, <<"A","t","l","a","n","t","i","s">> }
      [] key = "state"          -> { <<"C","o","l","o","r","a","d","o">> }
      [] key = "latitude"       -> { <<"8">>,
      <<"x">> }
      [] key = "longitude"      -> { <<"9">> }
      [] key = "radius"         -> { <<"7","0">>,
      <<"7","0","+">>,
      <<"2","0","0","-">>,
      <<"-","7","0">>,
      <<"7","0","+","-">>,
      <<"x">> }
      [] key = "proximityRoute" -> { <<"r","o","u","t","e","/","1","0","4","/","r">>,
      <<"a","r","e","a","/","2">>,
      <<"r","o","u","t","e","/","9","9","9">>,
      <<"r","o","u","t","e">> }
      [] key = "distanceUnits"  -> { <<"k","m">>,
      <<"M","i","l","e","s">>,
      <<"f","e","e","t">> }

GeoKeys == {"city", "state", "latitude", "longitude", "radius", "proximityRoute",
            "distanceUnits"}

\* Every choice of a value or of NullText, for a criterion left out
Opt(key) == GeoValues(key) \cup { NullText }

GeoChoices ==
    [city : Opt("city"), state : Opt("state"), latitude : Opt("latitude"),
     longitude : Opt("longitude"), radius : Opt("radius"),
     proximityRoute : Opt("proximityRoute"), distanceUnits : Opt("distanceUnits")]

GeoKwargs ==
    { [k \in { x \in GeoKeys : c[x] # NullText } |-> c[k]] : c \in GeoChoices }

\* Area names asked for
AreaTexts ==
    { <<"R","e","d">>,
      <<"e","l","d","o">>,
      <<"e">>,
      <<"Y","o","s">>,
      <<"n","o","w","h","e","r","e">>,
      << >>,
      <<"r","_","d">>,
      <<"%">> }

AreaKwargs ==
    { [k \in {"parentAreaName"} |-> t] : t \in AreaTexts }
    \cup { [k \in {"parentAreaName", "type"} |->
              IF k = "type" THEN <<"S","p","o","r","t",","," ","T","r","a","d">> ELSE t] : t \in AreaTexts }

\* The criteria mappings of the model
KwargsDomain ==
    DifficultyKwargs \cup TypeKwargs \cup NumericKwargs \cup MixedKwargs
    \cup GeoKwargs
    \cup AreaKwargs

\* ------------------------------------------------------------ the program

VARIABLES
    pc,       \* where the call is: idle, validate, compile, execute, raised, returned
    method,   \* "fetchRoutes" or "fetchRouteRatings"
    kwargs,   \* the criteria mapping of the call
    plan,     \* what processFilters returned or raised
    query,    \* the query text and parameters handed to cursor.execute
    log,      \* the calls made on the cursor and the geocoder, in order
    outcome   \* the exception raised or the records returned

\* The state of the parts of the program that are checked on their own
VARIABLES
    expansion,    \* the evaluation of the recursive SubAreas query on an area table
    als,          \* a call of SparkALSModel.recommendRoutes: its arguments and result
    recommender   \* the fields of a RouteContentRecommender and its last result

others == <<expansion, als, recommender>>

\* The state of a fetchRoutes / fetchRouteRatings call
callVars == <<pc, method, kwargs, plan, query, log, outcome>>

vars == <<callVars, others>>

\* No SubAreas query is being evaluated
NoExpansion ==
    [pc |-> "idle", parent |-> << >>, named |-> {}, working |-> {}, result |-> << >>,
     rounds |-> 0]

\* No call of SparkALSModel.recommendRoutes
NoALS == [pc |-> "idle"]

\* No RouteContentRecommender
NoRecommender == [pc |-> "none"]

NoKwargs == [k \in {} |-> 0]

NoQuery ==
    [query |-> [select |-> "", subAreas |-> << >>, joinClause |-> << >>,
                whereClause |-> << >>],
     queryParameters |-> EmptyParameters]

Init ==
    /\ pc = "idle"
    /\ method = ""
    /\ kwargs = NoKwargs
    /\ plan = NewPlan
    /\ query = NoQuery
    /\ log = << >>
    /\ outcome = NoOutcome
    /\ expansion = NoExpansion
    /\ als = NoALS
    /\ recommender = NoRecommender

\* A caller calls fetchRoutes(**kw) or fetchRouteRatings(**kw)
Call ==
    /\ pc = "idle"
    /\ \E m \in {"fetchRoutes", "fetchRouteRatings"}, kw \in KwargsDomain :
           /\ method' = m
           /\ kwargs' = kw
    /\ pc' = "validate"
    /\ plan' = NewPlan
    /\ query' = NoQuery
    /\ log' = << >>
    /\ outcome' = NoOutcome
    /\ UNCHANGED others

\* self.validateKeywordArgs(**kwargs)
Validate ==
    /\ pc = "validate"
    /\ LET v == validateKeywordArgs(kwargs)
       IN  IF v.exc # ""
           THEN /\ pc' = "raised"
                /\ outcome' = Outcome(v.exc, v.msg, v.names, << >>)
           ELSE /\ pc' = "compile"
                /\ outcome' = outcome
    /\ UNCHANGED <<method, kwargs, plan, query, log>>
    /\ UNCHANGED others

\* joinClause, whereClause, queryParameters = self.processFilters(**kwargs)
Compile ==
    /\ pc = "compile"
    /\ LET st == processFilters(kwargs)
       IN  /\ plan' = st
           /\ log' = log \o st.log
           /\ IF Failed(st)
              THEN /\ pc' = "raised"
                   /\ outcome' = Outcome(st.exc, st.msg, {}, << >>)
              ELSE /\ pc' = "execute"
                   /\ outcome' = outcome
    /\ UNCHANGED <<method, kwargs, query>>
    /\ UNCHANGED others

\* The rest of fetchRoutes / fetchRouteRatings: the parentAreaName lookup,
\* the query text, cursor.execute, fetchall and the records returned
Execute ==
    /\ pc = "execute"
    /\ IF ParentAreaName(kwargs).exc # ""
       THEN /\ pc' = "raised"
            /\ outcome' = Outcome(ParentAreaName(kwargs).exc, "parentAreaName", {}, << >>)
            /\ UNCHANGED <<query, log>>
       ELSE /\ query' = IF method = "fetchRoutes"
                          THEN fetchRoutesQuery(kwargs, plan)
                          ELSE fetchRouteRatingsQuery(kwargs, plan)
            /\ log' = Append(log, Executed(method, DOMAIN query'.queryParameters, {}))
            /\ outcome' = Outcome("", "", {},
                              IF method = "fetchRoutes"
                              THEN ExecuteRoutes(query'.query, query'.queryParameters)
                              ELSE ExecuteRatings(query'.query, query'.queryParameters))
            /\ pc' = "returned"
    /\ UNCHANGED <<method, kwargs, plan>>
    /\ UNCHANGED others

\* The call is over: the caller has the records or the exception
Return ==
    /\ pc \in {"raised", "returned"}
    /\ pc' = "idle"
    /\ method' = ""
    /\ kwargs' = NoKwargs
    /\ plan' = NewPlan
    /\ query' = NoQuery
    /\ log' = << >>
    /\ outcome' = NoOutcome
    /\ UNCHANGED others

Next ==
    \/ Call
    \/ Validate
    \/ Compile
    \/ Execute
    \/ Return

Spec == Init /\ [][Next]_vars

\* ------------------------------------------------------------------ claims

Done == pc \in {"raised", "returned"}

Compiled == pc \in {"execute", "returned"}

LowerNames(kw) == { KeyLower(k) : k \in DOMAIN kw }

\* The value of a criterion whatever the spelling of its name
Criterion(kw, lowerName) == kw[CHOOSE k \in DOMAIN kw : KeyLower(k) = lowerName]

RangeOf(seq) == { seq[i] : i \in 1..Len(seq) }

\* Join and where text that holds values only as placeholders: every
\* comparison and every join argument is a placeholder, the only number in
\* the text is the generic area's id, and the type clauses are those the
\* code writes
OnlyPlaceholders(joinClause, whereClause) ==
    /\ \A i \in 1..Len(joinClause) :
         \A j \in 1..Len(joinClause[i].args) : joinClause[i].args[j].k = "ph"
    /\ \A i \in 1..Len(whereClause) :
         /\ whereClause[i].t = "cmp" => whereClause[i].arg.k = "ph"
         /\ whereClause[i].t = "neq" => whereClause[i].lit = GenericAreaId
         /\ whereClause[i].t = "type" => RangeOf(whereClause[i].alts) \subseteq RangeOf(TypeClauses)

\* Every placeholder of the text has its value in the parameter mapping
AllBound(joinClause, whereClause, subAreas, params) ==
    /\ \A i \in 1..Len(joinClause) :
         \A j \in 1..Len(joinClause[i].args) : joinClause[i].args[j].v \in DOMAIN params
    /\ \A i \in 1..Len(whereClause) :
         whereClause[i].t = "cmp" => whereClause[i].arg.v \in DOMAIN params
    /\ \A i \in 1..Len(subAreas) : subAreas[i].v \in DOMAIN params

\* C1: no criterion value is concatenated into the join text, the where text
\* or the final query of fetchRoutes / fetchRouteRatings; the text holds
\* placeholders only, every one bound in the parameter mapping the query is
\* executed with, and the call that executes it inlines nothing.
C1_ValuesOnlyAsParameters ==
    /\ OnlyPlaceholders(plan.joinClause, plan.whereClause)
    /\ OnlyPlaceholders(query.query.joinClause, query.query.whereClause)
    /\ \A i \in 1..Len(query.query.subAreas) : query.query.subAreas[i].k = "ph"
    /\ Compiled => AllBound(plan.joinClause, plan.whereClause, << >>, plan.queryParameters)
    /\ pc = "returned" =>
         /\ AllBound(query.query.joinClause, query.query.whereClause,
                     query.query.subAreas, query.queryParameters)
         /\ log[Len(log)].inlined = {}
         /\ log[Len(log)].bound = DOMAIN query.queryParameters

\* A call with a height and an area name has returned: the query text has
\* the height comparison and the SubAreas pattern as placeholders
C1_Witness ==
    /\ pc = "returned"
    /\ {"height", "parentAreaName"} \subseteq DOMAIN query.queryParameters
    /\ query.query.subAreas # << >>
    /\ \E i \in 1..Len(query.query.whereClause) :
         /\ query.query.whereClause[i].t = "cmp"
         /\ query.query.whereClause[i].col = "r.Height"

\* The names a criteria mapping may use, lower-cased
CriterionNames ==
    {"parentareaname", "routedifficultylow", "routedifficultyhigh", "type", "height",
     "pitches", "grade", "severitythreshold", "averagerating", "elevation", "votecount",
     "city", "state", "latitude", "longitude", "proximityroute", "radius", "distanceunits"}

UnknownNames(kw) == { k \in DOMAIN kw : KeyLower(k) \notin CriterionNames }

\* C2: a call whose mapping holds names outside the allowed set raises the
\* unknown-criterion error listing every such name, before any filter is
\* processed and before any query or geocoding call; a call whose names are
\* all allowed gets past validation and never raises that error.
C2_UnknownCriteriaAllListed ==
    pc \notin {"idle", "validate"} =>
        IF UnknownNames(kwargs) # {}
        THEN /\ pc = "raised"
             /\ outcome.exc = "TypeError"
             /\ outcome.msg = "Invalid keyword arguments specified for fetchRoutes"
             /\ outcome.names = UnknownNames(kwargs)
             /\ plan = NewPlan
             /\ query = NoQuery
             /\ log = << >>
        ELSE outcome.msg # "Invalid keyword arguments specified for fetchRoutes"

\* A call with two unknown names was refused, both names in the message
C2_Witness ==
    /\ pc = "raised"
    /\ Cardinality(UnknownNames(kwargs)) = 2
    /\ outcome.names = UnknownNames(kwargs)

\* A call with allowed names only got past validation
C2_WitnessAllowed ==
    /\ pc = "compile"
    /\ DOMAIN kwargs # {}
    /\ UnknownNames(kwargs) = {}


\* The spelling of a criterion name in the method's list of allowed names
CanonicalName(k) == CHOOSE a \in allowedKeywords : KeyLower(a) = KeyLower(k)

\* The mapping with every name in its canonical spelling
Canonical(kw) ==
    [a \in { CanonicalName(k) : k \in DOMAIN kw } |-> Criterion(kw, KeyLower(a))]

\* A mapping of allowed names, no two of them spellings of the same name
AllowedNamesOnce(kw) ==
    /\ UnknownNames(kw) = {}
    /\ Cardinality(LowerNames(kw)) = Cardinality(DOMAIN kw)

\* C3: criterion names are case-insensitive: a call whose names are letter-case
\* variants of allowed names ends as the call with the canonical spellings
\* ends, with the same records or the same error, never an error caused by
\* the spelling.
C3_SpellingIrrelevant ==
    (Done /\ AllowedNamesOnce(kwargs)) =>
        outcome = CallOutcome(method, Canonical(kwargs))

\* A call naming the area as parentareaname has ended
C3_Witness ==
    /\ Done
    /\ AllowedNamesOnce(kwargs)
    /\ "parentareaname" \in DOMAIN kwargs


\* C4: an empty criteria mapping compiles to an empty join text and the
\* where text "where true" with no parameter, and fetchRoutes without
\* criteria returns every route that has its area, once each, in the order
\* of the route ids and with each comment once.
C4_EmptyCriteriaSelectAll ==
    (method # "" /\ DOMAIN kwargs = {}) =>
        /\ pc # "raised"
        /\ Compiled =>
             /\ plan.joinClause = << >>
             /\ plan.whereClause = <<WhereTrue>>
             /\ DOMAIN plan.queryParameters = {}
        /\ (pc = "returned" /\ method = "fetchRoutes") =>
             LET all == { r \in Routes : \E a \in Areas : a.AreaId = r.AreaId }
             IN  /\ query.query.joinClause = << >>
                 /\ query.query.whereClause = <<WhereTrue>>
                 /\ query.query.subAreas = << >>
                 /\ Len(outcome.rows) = Cardinality(all)
                 /\ { outcome.rows[i].RouteId : i \in 1..Len(outcome.rows) }
                      = { r.RouteId : r \in all }
                 /\ \A i \in 1..Len(outcome.rows) :
                      /\ outcome.rows[i].AreaId = RouteById(outcome.rows[i].RouteId).AreaId
                      /\ \A c \in DOMAIN outcome.rows[i].Comments :
                           outcome.rows[i].Comments[c] = 1
                      /\ i > 1 => outcome.rows[i - 1].RouteId < outcome.rows[i].RouteId

\* fetchRoutes() without criteria has returned every route
C4_Witness ==
    /\ pc = "returned"
    /\ method = "fetchRoutes"
    /\ DOMAIN kwargs = {}
    /\ Len(outcome.rows) = Cardinality(Routes)
    /\ plan.whereClause = <<WhereTrue>>


\* The scale families (rating systems of the reference table) a token is a
\* difficulty of
Families(token) ==
    { row.RatingSystem : row \in { x \in DifficultyReference : x.Difficulty = token } }

\* Two tokens of the reference table with no family in common
DifferentFamilies(low, high) ==
    /\ Families(low) # {}
    /\ Families(high) # {}
    /\ Families(low) \cap Families(high) = {}

\* The call gives both difficulty bounds
BothBounds(kw) ==
    /\ AllowedNamesOnce(kw)
    /\ {"routedifficultylow", "routedifficultyhigh"} \subseteq LowerNames(kw)

\* The errors processFilters reports itself are ValueErrors with a message
\* of its own; any other exception escapes from a statement that failed
Reported(o) == o.exc = "ValueError"

\* C5: a low bound and a high bound of two different scale families make
\* compilation fail with a reported error saying so; no plan is produced.
C5_DifferentFamiliesReported ==
    (Done /\ BothBounds(kwargs)
          /\ DifferentFamilies(Criterion(kwargs, "routedifficultylow"),
                               Criterion(kwargs, "routedifficultyhigh"))) =>
        /\ pc = "raised"
        /\ Reported(outcome)

\* A call with bounds of two different families has ended
C5_Witness ==
    /\ Done
    /\ BothBounds(kwargs)
    /\ DifferentFamilies(Criterion(kwargs, "routedifficultylow"),
                         Criterion(kwargs, "routedifficultyhigh"))


\* A difficulty bound of the call: <<token>>, or <<>> when the criterion is
\* absent or empty
Bound(kw, lowerName) ==
    IF lowerName \in LowerNames(kw) /\ Criterion(kw, lowerName) # ""
    THEN << Criterion(kw, lowerName) >>
    ELSE << >>

\* The ranks of a family and the rank of a token in a family
FamilyRanks(family) ==
    { row.DifficultyRanking : row \in { x \in DifficultyReference : x.RatingSystem = family } }

RankIn(token, family) ==
    (CHOOSE x \in DifficultyReference :
        x.Difficulty = token /\ x.RatingSystem = family).DifficultyRanking

\* The reference rows the where text of a plan keeps
KeptReferenceRows(where, params) ==
    { x \in DifficultyReference :
        \A i \in 1..Len(where) :
            (where[i].t = "cmp"
               /\ where[i].col \in {"ref.DifficultyRanking", "ref.RatingSystem"})
            => ClauseHolds(where[i], [lref |-> [ref |-> x]], params) }

\* C6: when a difficulty bound is given and the criteria compile, the family
\* is that of the low bound if one is given and of the high bound otherwise;
\* the low parameter is the rank of the low bound in that family, or the
\* family's least rank when it is omitted, the high parameter the rank of the
\* high bound or the family's greatest rank; and the where text keeps exactly
\* the reference rows of that family with a rank from low to high.
C6_DifficultyRange ==
    (Compiled /\ AllowedNamesOnce(kwargs)
       /\ (Bound(kwargs, "routedifficultylow") # << >>
             \/ Bound(kwargs, "routedifficultyhigh") # << >>)) =>
        LET low == Bound(kwargs, "routedifficultylow")
            high == Bound(kwargs, "routedifficultyhigh")
            family == plan.queryParameters["ratingSystem"]
            dLow == plan.queryParameters["difficultyLow"]
            dHigh == plan.queryParameters["difficultyHigh"]
        IN  /\ Families(IF low # << >> THEN low[1] ELSE high[1]) = {family}
            /\ dLow = IF low # << >> THEN RankIn(low[1], family)
                      ELSE Min(FamilyRanks(family))
            /\ dHigh = IF high # << >> THEN RankIn(high[1], family)
                       ELSE Max(FamilyRanks(family))
            /\ low # << >> => low[1] \in { x.Difficulty : x \in
                                 { y \in DifficultyReference : y.RatingSystem = family } }
            /\ high # << >> => high[1] \in { x.Difficulty : x \in
                                 { y \in DifficultyReference : y.RatingSystem = family } }
            /\ DifficultyJoin \in RangeOf(plan.joinClause)
            /\ KeptReferenceRows(plan.whereClause, plan.queryParameters)
                 = { x \in DifficultyReference :
                       /\ x.RatingSystem = family
                       /\ dLow <= x.DifficultyRanking
                       /\ x.DifficultyRanking <= dHigh }

\* A high bound alone has compiled: the family is the high bound's, the low
\* rank the least of that family and not the least of the table
C6_Witness ==
    /\ Compiled
    /\ AllowedNamesOnce(kwargs)
    /\ Bound(kwargs, "routedifficultylow") = << >>
    /\ Bound(kwargs, "routedifficultyhigh") = << "V1" >>
    /\ plan.queryParameters["ratingSystem"] = "V"
    /\ plan.queryParameters["difficultyLow"] = 2
    /\ plan.queryParameters["difficultyHigh"] = 3

\* Both bounds given, of one family, have compiled
C6_WitnessBoth ==
    /\ Compiled
    /\ AllowedNamesOnce(kwargs)
    /\ Bound(kwargs, "routedifficultylow") = << "5.8" >>
    /\ Bound(kwargs, "routedifficultyhigh") = << "5.10a" >>
    /\ plan.queryParameters["difficultyLow"] = 2
    /\ plan.queryParameters["difficultyHigh"] = 4


\* The words of the type categories
Word(w) ==
    CASE w = "trad"     -> <<"t","r","a","d">>
      [] w = "aid"      -> <<"a","i","d">>
      [] w = "sport"    -> <<"s","p","o","r","t">>
      [] w = "boulder"  -> <<"b","o","u","l","d","e","r">>
      [] w = "top rope" -> <<"t","o","p"," ","r","o","p","e">>
      [] w = "alpine"   -> <<"a","l","p","i","n","e">>
      [] w = "ice"      -> <<"i","c","e">>
      [] w = "snow"     -> <<"s","n","o","w">>
      [] w = "mixed"    -> <<"m","i","x","e","d">>

CategoryWords ==
    {"trad", "aid", "sport", "boulder", "top rope", "alpine", "ice", "snow", "mixed"}

\* A type tag has a word in it, whatever the letter case
TagHas(tag, w) == tag # NullText /\ Contains(LowerStr(tag), Word(w))

\* What the trad clause and the sport clause are to match
TradTag(tag) ==
    TagHas(tag, "trad") /\ \A w \in {"aid", "mixed", "ice", "snow"} : ~TagHas(tag, w)

SportTag(tag) ==
    TagHas(tag, "sport")
      /\ \A w \in {"trad", "aid", "mixed", "ice", "snow"} : ~TagHas(tag, w)

\* The type tags a clause is tried on: those of the routes and some more
TypeTags ==
    { r.Type : r \in Routes }
    \cup { <<"T","r","a","d",","," ","S","p","o","r","t">>,
           <<"S","p","o","r","t",","," ","I","c","e">>,
           <<"T","r","a","d",","," ","M","i","x","e","d">>,
           <<"A","i","d">>, NullText }

\* The type clause of a where text: <<clause>>, or <<>> when it has none
TypeClauseOf(where) ==
    IF \E i \in 1..Len(where) : where[i].t = "type"
    THEN << where[CHOOSE i \in 1..Len(where) : where[i].t = "type"] >>
    ELSE << >>

\* The only criterion of the call is the type
TypeOnly(kw) == AllowedNamesOnce(kw) /\ LowerNames(kw) = {"type"}

ReturnedIds == { outcome.rows[i].RouteId : i \in 1..Len(outcome.rows) }

\* C7: a type criterion compiles to one disjunction with a clause for each
\* category named in it; its trad clause matches exactly the tags with
\* 'trad' and none of 'aid', 'mixed', 'ice', 'snow', its sport clause exactly
\* the tags with 'sport' and none of 'trad', 'aid', 'mixed', 'ice', 'snow';
\* so fetchRoutes with type 'Trad' alone returns the trad routes and no route
\* whose tag has 'aid' in it.
C7_TypeClausesExclude ==
    (Compiled /\ AllowedNamesOnce(kwargs) /\ "type" \in LowerNames(kwargs)) =>
        LET text == LowerStr(Criterion(kwargs, "type"))
            clause == TypeClauseOf(plan.whereClause)
            alts == clause[1].alts
        IN  /\ clause # << >>
            /\ { alts[i].name : i \in 1..Len(alts) }
                 = { Word(w) : w \in { x \in CategoryWords : Contains(text, Word(x)) } }
            /\ \A i \in 1..Len(alts), tag \in TypeTags :
                 /\ alts[i].name = Word("trad") =>
                      (TypeAlternativeHolds(tag, alts[i]) <=> TradTag(tag))
                 /\ alts[i].name = Word("sport") =>
                      (TypeAlternativeHolds(tag, alts[i]) <=> SportTag(tag))
            /\ (pc = "returned" /\ method = "fetchRoutes" /\ TypeOnly(kwargs)) =>
                 /\ text = Word("trad") =>
                      ReturnedIds = { r.RouteId : r \in { x \in Routes : TradTag(x.Type) } }
                 /\ text = Word("sport") =>
                      ReturnedIds = { r.RouteId : r \in { x \in Routes : SportTag(x.Type) } }

\* fetchRoutes(type = "Trad") has returned route 101 (Trad) and not route 102
\* (Trad, Aid)
C7_Witness ==
    /\ pc = "returned"
    /\ method = "fetchRoutes"
    /\ TypeOnly(kwargs)
    /\ Criterion(kwargs, "type") = <<"T","r","a","d">>
    /\ 101 \in ReturnedIds
    /\ 102 \notin ReturnedIds
    /\ TagHas(RouteById(102).Type, "trad")


InvalidRouteType == "Invalid route type specified"

\* The type criterion of the call names a category
Recognized(kw) ==
    \E w \in CategoryWords : Contains(LowerStr(Criterion(kw, "type")), Word(w))

\* C8: a type criterion naming none of the categories makes compilation fail,
\* with the invalid-route-type error unless an earlier block (the difficulty
\* bounds) has failed first, and no plan is returned; a type criterion naming
\* at least one category never gets that error, its clause is in every plan
\* compiled, and alone it compiles.
C8_InvalidRouteType ==
    (Done /\ AllowedNamesOnce(kwargs) /\ "type" \in LowerNames(kwargs)) =>
        IF ~Recognized(kwargs)
        THEN /\ pc = "raised"
             /\ Failed(plan)
             /\ query = NoQuery
             /\ LowerNames(kwargs) \cap {"routedifficultylow", "routedifficultyhigh"} = {}
                  => /\ outcome.exc = "ValueError"
                     /\ outcome.msg = InvalidRouteType
        ELSE /\ outcome.msg # InvalidRouteType
             /\ ~Failed(plan) => TypeClauseOf(plan.whereClause) # << >>
             /\ TypeOnly(kwargs) => pc = "returned"

\* A call whose type names no category was refused with the error
C8_Witness ==
    /\ pc = "raised"
    /\ AllowedNamesOnce(kwargs)
    /\ "type" \in LowerNames(kwargs)
    /\ ~Recognized(kwargs)
    /\ Criterion(kwargs, "type") # << >>
    /\ outcome.msg = InvalidRouteType

\* A call whose type names a category among other words has returned
C8_WitnessRecognized ==
    /\ pc = "returned"
    /\ TypeOnly(kwargs)
    /\ Criterion(kwargs, "type") = <<"t","r","a","d","s","p","o","r","t">>


\* The rank of a severity token of the reference table
SeverityRank(token) ==
    (CHOOSE x \in SeverityReference : x.Severity = token).SeverityRanking

\* The severity a route counts with: its token, or 'G' when it has none
EffectiveSeverity(r) == IF r.Severity = NullText THEN <<"G">> ELSE r.Severity

\* The token of the reference table a threshold names, whatever its letter
\* case: <<token>>, or <<>> when it names none
ThresholdToken(text) ==
    IF \E x \in SeverityReference : LowerStr(x.Severity) = LowerStr(text)
    THEN << (CHOOSE x \in SeverityReference :
                LowerStr(x.Severity) = LowerStr(text)).Severity >>
    ELSE << >>

\* The only criterion of the call is the severity threshold
SeverityOnly(kw) == AllowedNamesOnce(kw) /\ LowerNames(kw) = {"severitythreshold"}

\* C9: fetchRoutes with a severity threshold alone returns exactly the routes
\* whose effective severity (the route's token, 'G' when it has none) ranks
\* at or below the threshold, the threshold read whatever its letter case;
\* and with other criteria besides, no route ranking above the threshold is
\* returned.
C9_SeverityCeiling ==
    (AllowedNamesOnce(kwargs) /\ "severitythreshold" \in LowerNames(kwargs)) =>
        LET threshold == ThresholdToken(Criterion(kwargs, "severitythreshold"))
        IN  /\ (Done /\ SeverityOnly(kwargs) /\ threshold # << >>) => pc = "returned"
            /\ Compiled => /\ threshold # << >>
                           /\ plan.queryParameters["severity"] = SeverityRank(threshold[1])
            /\ (pc = "returned" /\ method = "fetchRoutes") =>
                 /\ \A id \in ReturnedIds :
                      SeverityRank(EffectiveSeverity(RouteById(id)))
                        <= SeverityRank(threshold[1])
                 /\ SeverityOnly(kwargs) =>
                      ReturnedIds =
                        { r.RouteId : r \in
                            { x \in Routes :
                                SeverityRank(EffectiveSeverity(x))
                                  <= SeverityRank(threshold[1]) } }

\* fetchRoutes(severityThreshold = "pg") has returned route 101, which has no
\* severity, and route 106 (PG), and neither route 102 (R) nor 107 (PG13)
C9_Witness ==
    /\ pc = "returned"
    /\ method = "fetchRoutes"
    /\ SeverityOnly(kwargs)
    /\ Criterion(kwargs, "severitythreshold") = <<"p","g">>
    /\ RouteById(101).Severity = NullText
    /\ {101, 106} \subseteq ReturnedIds
    /\ ReturnedIds \cap {102, 107} = {}


NumericNames == {"height", "pitches", "grade", "averagerating", "votecount", "elevation"}

\* The only criterion of the call is one of the numeric ranges
NumericOnly(kw) ==
    /\ AllowedNamesOnce(kw)
    /\ Cardinality(DOMAIN kw) = 1
    /\ LowerNames(kw) \subseteq NumericNames

\* The number a text writes (digits with or without a sign, nothing else):
\* <<v>>, or <<>> when the text is no number
NumberOf(text) ==
    IF text = StripSpace(text) THEN ParseFloat(text) ELSE << >>

\* A range text read as the spec reads it: a number, or a number and one
\* trailing '+' or '-'.  <<v, marker>>, or <<>> for any other text.
RangeText(text) ==
    IF NumberOf(text) # << >> THEN << NumberOf(text)[1], "" >>
    ELSE IF Len(text) > 1 /\ text[Len(text)] \in {"+", "-"}
            /\ NumberOf(SubSeq(text, 1, Len(text) - 1)) # << >>
    THEN << NumberOf(SubSeq(text, 1, Len(text) - 1))[1], text[Len(text)] >>
    ELSE << >>

\* The plan is one comparison op of a column with the value v
OneComparison(st, op, v) ==
    /\ ~Failed(st)
    /\ Len(st.whereClause) = 2
    /\ st.whereClause[2].t = "cmp"
    /\ st.whereClause[2].op = op
    /\ st.whereClause[2].arg.k = "ph"
    /\ DOMAIN st.queryParameters = { st.whereClause[2].arg.v }
    /\ st.queryParameters[st.whereClause[2].arg.v] = v

\* C10: for each numeric range criterion and every number v, the text 'v'
\* compiles to the plan of 'v+', a comparison >= with the value v, and the
\* text 'v-' to the comparison <= with the value v.
C10_NoSuffixIsPlus ==
    (Done /\ NumericOnly(kwargs)
          /\ RangeText(kwargs[CHOOSE k \in DOMAIN kwargs : TRUE]) # << >>) =>
        LET k == CHOOSE x \in DOMAIN kwargs : TRUE
            range == RangeText(kwargs[k])
        IN  /\ OneComparison(plan, IF range[2] = "-" THEN "<=" ELSE ">=", range[1])
            /\ range[2] = "" =>
                 plan = processFilters([x \in {k} |-> kwargs[k] \o <<"+">>])

\* A call with a negative number as its only criterion has ended
C10_Witness ==
    /\ Done
    /\ NumericOnly(kwargs)
    /\ RangeText(kwargs[CHOOSE k \in DOMAIN kwargs : TRUE]) = << 0 - 3, "" >>


\* The only criterion of the call is pitches or grade
ExactOnly(kw) ==
    /\ NumericOnly(kw)
    /\ LowerNames(kw) \subseteq {"pitches", "grade"}

\* A text read as a number followed by one '=': <<v>>, or <<>> for any other
ExactText(text) ==
    IF Len(text) > 1 /\ text[Len(text)] = "="
    THEN NumberOf(SubSeq(text, 1, Len(text) - 1))
    ELSE << >>

\* The column a criterion compares
ColumnOf(lowerName) ==
    IF lowerName = "pitches" THEN "r.Pitches" ELSE "r.Grade"

\* C11: for pitches and grade and every number v, the text 'v=' compiles to
\* the single predicate column = value with the value v bound, not to a
\* comparison >= or <=.
C11_TrailingEqualsIsExact ==
    (Done /\ ExactOnly(kwargs)
          /\ ExactText(kwargs[CHOOSE k \in DOMAIN kwargs : TRUE]) # << >>) =>
        LET k == CHOOSE x \in DOMAIN kwargs : TRUE
        IN  /\ OneComparison(plan, "=", ExactText(kwargs[k])[1])
            /\ plan.whereClause[2].col = ColumnOf(KeyLower(k))

\* A call with pitches or grade '-3=' as its only criterion has ended
C11_Witness ==
    /\ Done
    /\ ExactOnly(kwargs)
    /\ ExactText(kwargs[CHOOSE k \in DOMAIN kwargs : TRUE]) = << 0 - 3 >>


LocationNames == {"city", "state", "latitude", "longitude", "radius", "proximityroute"}

\* A location shape of the criteria is complete
ShapeComplete(kw) ==
    \/ {"city", "state"} \subseteq LowerNames(kw)
    \/ {"latitude", "longitude"} \subseteq LowerNames(kw)
    \/ "proximityroute" \in LowerNames(kw)

\* The errors that report a location that cannot be worked out
IncompleteLocationErrors ==
    { "Error: All three of city, state, and radius must be specified.",
      "Error: All three of latitude, longitude, and radius must be specified.",
      "Error: Both a proximity route URL and radius must be specified.",
      "You must specify a way to obtain latitude/longitude." }

\* C12: when a location criterion is present, a plan is compiled only if the
\* radius is present and one of the shapes city+state, latitude+longitude or
\* proximityRoute is complete; when no shape is complete the call ends with
\* an incomplete-location error, no plan and no query.
C12_IncompleteLocation ==
    (Done /\ AllowedNamesOnce(kwargs) /\ LowerNames(kwargs) \cap LocationNames # {}) =>
        /\ ~Failed(plan) => ("radius" \in LowerNames(kwargs) /\ ShapeComplete(kwargs))
        /\ ~ShapeComplete(kwargs) =>
              /\ pc = "raised"
              /\ Failed(plan)
              /\ query = NoQuery
              /\ outcome.exc = "ValueError"
              /\ outcome.msg \in IncompleteLocationErrors

\* A call with a radius and no location was refused
C12_Witness ==
    /\ pc = "raised"
    /\ AllowedNamesOnce(kwargs)
    /\ LowerNames(kwargs) \cap LocationNames = {"radius"}
    /\ outcome.msg = "You must specify a way to obtain latitude/longitude."

\* A call with a lone city was refused
C12_WitnessLoneCity ==
    /\ pc = "raised"
    /\ AllowedNamesOnce(kwargs)
    /\ LowerNames(kwargs) \cap LocationNames = {"city"}
    /\ outcome.msg \in IncompleteLocationErrors

\* A call with a radius and a complete shape has returned
C12_WitnessComplete ==
    /\ pc = "returned"
    /\ AllowedNamesOnce(kwargs)
    /\ LowerNames(kwargs) \cap LocationNames = {"radius", "proximityroute"}


\* The criteria without the ones named (lower-case names)
Without(kw, names) ==
    [k \in { x \in DOMAIN kw : KeyLower(x) \notin names } |-> kw[k]]

\* The criteria give a city and state the geocoder finds
ValidCityState(kw) ==
    /\ {"city", "state"} \subseteq LowerNames(kw)
    /\ Geocode(Criterion(kw, "city"), Criterion(kw, "state")) # << >>

\* The plan binds the point as its latitude and longitude
BindsPoint(st, lat, lon) ==
    /\ {"latitude", "longitude"} \subseteq DOMAIN st.queryParameters
    /\ st.queryParameters["latitude"] = lat
    /\ st.queryParameters["longitude"] = lon

\* C13: the location is taken from city/state first, then from
\* latitude/longitude, then from proximityRoute.  With a city and state the
\* geocoder finds, compilation ends as it ends without the latitude,
\* longitude and proximityRoute criteria, and a plan compiled binds the
\* geocoded point; with no city or state and both coordinates, it ends as it
\* ends without proximityRoute, and a plan compiled binds the coordinates
\* given.
C13_LocationPrecedence ==
    (Done /\ AllowedNamesOnce(kwargs)) =>
        /\ (ValidCityState(kwargs)
            /\ LowerNames(kwargs) \cap {"latitude", "longitude", "proximityroute"} # {}) =>
              /\ plan = processFilters(Without(kwargs, {"latitude", "longitude", "proximityroute"}))
              /\ ~Failed(plan) =>
                   BindsPoint(plan,
                       Geocode(Criterion(kwargs, "city"), Criterion(kwargs, "state"))[1].lat,
                       Geocode(Criterion(kwargs, "city"), Criterion(kwargs, "state"))[1].lon)
        /\ (LowerNames(kwargs) \cap {"city", "state"} = {}
            /\ {"latitude", "longitude", "proximityroute"} \subseteq LowerNames(kwargs)) =>
              /\ plan = processFilters(Without(kwargs, {"proximityroute"}))
              /\ ~Failed(plan) =>
                   BindsPoint(plan, ParseFloat(Criterion(kwargs, "latitude"))[1],
                                    ParseFloat(Criterion(kwargs, "longitude"))[1])

\* A call with a city and state, both coordinates, a proximity route and a
\* radius has returned, its plan bound to the geocoded point
C13_Witness ==
    /\ pc = "returned"
    /\ AllowedNamesOnce(kwargs)
    /\ ValidCityState(kwargs)
    /\ {"latitude", "longitude", "proximityroute"} \subseteq LowerNames(kwargs)
    /\ BindsPoint(plan, 4, 1)
    /\ ParseFloat(Criterion(kwargs, "latitude")) = << 8 >>

\* A call with both coordinates and a proximity route has returned, its plan
\* bound to the coordinates
C13_WitnessCoordinates ==
    /\ pc = "returned"
    /\ AllowedNamesOnce(kwargs)
    /\ LowerNames(kwargs) \cap {"city", "state"} = {}
    /\ {"latitude", "longitude", "proximityroute"} \subseteq LowerNames(kwargs)
    /\ BindsPoint(plan, 8, 9)

\* A call with a city and state and a latitude that is no number has returned
C13_WitnessIgnored ==
    /\ pc = "returned"
    /\ AllowedNamesOnce(kwargs)
    /\ ValidCityState(kwargs)
    /\ "latitude" \in LowerNames(kwargs)
    /\ "longitude" \notin LowerNames(kwargs)
    /\ Criterion(kwargs, "latitude") = <<"x">>


AreaById(id) == CHOOSE a \in Areas : a.AreaId = id

\* A fetchRoutes call with a location criterion has returned
GeoReturned ==
    /\ pc = "returned"
    /\ method = "fetchRoutes"
    /\ AllowedNamesOnce(kwargs)
    /\ LowerNames(kwargs) \cap LocationNames # {}

\* C14: the routes fetchRoutes returns under a geospatial filter are never in
\* the generic area 112166257 and never in an area without a latitude or a
\* longitude, for every radius and marker.
C14_GeoExcludesGenericAndUnlocated ==
    GeoReturned =>
        \A i \in 1..Len(outcome.rows) :
            /\ outcome.rows[i].AreaId # GenericAreaId
            /\ AreaById(outcome.rows[i].AreaId).Latitude # << >>
            /\ AreaById(outcome.rows[i].AreaId).Longitude # << >>

\* The distance of the plan's point to an area, as the query computes it
DistanceTo(id) == Distance(AreaById(id), plan.queryParameters)[1]

\* A geospatial call has returned routes, and the generic area is within the
\* radius asked for
C14_Witness ==
    /\ GeoReturned
    /\ outcome.rows # << >>
    /\ plan.whereClause[Len(plan.whereClause)].op = "<="
    /\ DistanceTo(GenericAreaId) <= plan.queryParameters["radius"]

\* The same with the marker '+': the generic area is beyond the radius
C14_WitnessBeyond ==
    /\ GeoReturned
    /\ outcome.rows # << >>
    /\ plan.whereClause[Len(plan.whereClause)].op = ">="
    /\ DistanceTo(GenericAreaId) >= plan.queryParameters["radius"]


\* The criteria with another text for the radius
WithRadius(kw, text) ==
    [k \in DOMAIN kw |-> IF KeyLower(k) = "radius" THEN text ELSE kw[k]]

\* The last predicate of the plan compares the distance with the bound value
DistanceComparison(st, op, v) ==
    /\ ~Failed(st)
    /\ st.whereClause[Len(st.whereClause)] = Cmp("d.Distance", op, "radius")
    /\ "radius" \in DOMAIN st.queryParameters
    /\ st.queryParameters["radius"] = v

\* C15: where the location and the units compile, a radius text 'v' or 'v-'
\* compiles to distance <= v and 'v+' to distance >= v, for every number v,
\* and a radius that is no number once its marker is removed ends the call
\* with the invalid-number error.
C15_RadiusMarkers ==
    (Done /\ AllowedNamesOnce(kwargs) /\ "radius" \in LowerNames(kwargs)
          /\ ~Failed(processFilters(WithRadius(kwargs, <<"7","0">>)))) =>
        LET range == RangeText(Criterion(kwargs, "radius"))
        IN  IF range # << >>
            THEN DistanceComparison(plan, IF range[2] = "+" THEN ">=" ELSE "<=", range[1])
            ELSE /\ pc = "raised"
                 /\ outcome.exc = "ValueError"
                 /\ outcome.msg = "Radius is not a valid number."

\* A call with the radius '-70' and a location that resolves has ended
C15_Witness ==
    /\ Done
    /\ AllowedNamesOnce(kwargs)
    /\ "radius" \in LowerNames(kwargs)
    /\ ~Failed(processFilters(WithRadius(kwargs, <<"7","0">>)))
    /\ RangeText(Criterion(kwargs, "radius")) = << 0 - 70, "" >>


\* The criteria with another text for distanceUnits
WithUnits(kw, text) ==
    [k \in DOMAIN kw |-> IF KeyLower(k) = "distanceunits" THEN text ELSE kw[k]]

InvalidDistanceUnits == "distanceUnits must be one of the following"

\* The Earth radius the criteria ask for
EarthRadiusOf(kw) ==
    IF "distanceunits" \in LowerNames(kw)
       /\ LowerStr(Criterion(kw, "distanceunits")) \in KilometerNames
    THEN EarthRadiusKm ELSE EarthRadiusMiles

\* C16: a plan with a geospatial filter binds the Earth radius 6371.0 for
\* distanceUnits km or kilometers and 3958.8 for mi, miles or no
\* distanceUnits, in any letter case; a call whose distanceUnits is any other
\* text is refused, with the invalid-units error where the call compiles with
\* the units 'mi', whether or not it has other geospatial criteria.
C16_DistanceUnits ==
    (Done /\ AllowedNamesOnce(kwargs)) =>
        /\ ("distanceunits" \in LowerNames(kwargs)
            /\ LowerStr(Criterion(kwargs, "distanceunits")) \notin DistanceUnitNames) =>
              /\ pc = "raised"
              /\ ~Failed(processFilters(WithUnits(kwargs, <<"m","i">>))) =>
                    /\ outcome.exc = "ValueError"
                    /\ outcome.msg = InvalidDistanceUnits
        /\ (~Failed(plan) /\ LowerNames(kwargs) \cap LocationNames # {}) =>
              /\ "earthRadius" \in DOMAIN plan.queryParameters
              /\ plan.queryParameters["earthRadius"] = EarthRadiusOf(kwargs)
              /\ "distanceunits" \in LowerNames(kwargs) =>
                    LowerStr(Criterion(kwargs, "distanceunits")) \in DistanceUnitNames

\* A call whose only criterion is distanceUnits 'feet' has ended
C16_Witness ==
    /\ Done
    /\ AllowedNamesOnce(kwargs)
    /\ LowerNames(kwargs) = {"distanceunits"}
    /\ Criterion(kwargs, "distanceunits") = <<"f","e","e","t">>


\* The area, or an area above it through parent links, has a name that
\* contains the fragment, letter case aside
RECURSIVE InNamedArea(_, _)
InNamedArea(areaId, fragment) ==
    \E a \in Areas :
        /\ a.AreaId = areaId
        /\ \/ Contains(LowerStr(a.AreaName), LowerStr(fragment))
           \/ a.ParentAreaId # << >> /\ InNamedArea(a.ParentAreaId[1], fragment)

\* The route ids in the records of an outcome
IdsOf(o) == { o.rows[i].RouteId : i \in 1..Len(o.rows) }

\* A call with the criterion parentAreaName has returned
AreaReturned ==
    /\ pc = "returned"
    /\ AllowedNamesOnce(kwargs)
    /\ "parentAreaName" \in DOMAIN kwargs

\* C17: a call with a parentAreaName fragment returns the routes that the
\* call without it returns and that lie in an area whose name contains the
\* fragment as a literal substring, letter case aside, or in an area below
\* such an area, and no other route.
C17_ParentAreaRoutes ==
    AreaReturned =>
        IdsOf(outcome) =
            { id \in IdsOf(CallOutcome(method, Without(kwargs, {"parentareaname"}))) :
                InNamedArea(RouteById(id).AreaId, kwargs["parentAreaName"]) }

\* A call with the fragment 'r_d' has returned routes
C17_Witness ==
    /\ AreaReturned
    /\ kwargs["parentAreaName"] = <<"r","_","d">>
    /\ outcome.rows # << >>


\* No area has a name the fragment matches, as a substring or as a pattern
MatchesNoArea(fragment) ==
    \A a \in Areas :
        /\ ~Contains(LowerStr(a.AreaName), LowerStr(fragment))
        /\ ~Like(LowerStr(a.AreaName), <<"%">> \o LowerStr(fragment) \o <<"%">>)

\* C18: a fetchRoutes call whose parentAreaName fragment matches no area
\* name, and whose other criteria compile, returns the empty list and raises
\* no error.
C18_NoAreaNoRoutes ==
    (Done /\ method = "fetchRoutes" /\ AllowedNamesOnce(kwargs)
          /\ "parentAreaName" \in DOMAIN kwargs
          /\ MatchesNoArea(kwargs["parentAreaName"])
          /\ ~Failed(processFilters(kwargs))) =>
        /\ pc = "returned"
        /\ outcome.exc = ""
        /\ outcome.rows = << >>

\* A fetchRoutes call with the fragment 'nowhere' has returned
C18_Witness ==
    /\ pc = "returned"
    /\ method = "fetchRoutes"
    /\ "parentAreaName" \in DOMAIN kwargs
    /\ kwargs["parentAreaName"] = <<"n","o","w","h","e","r","e">>
    /\ MatchesNoArea(kwargs["parentAreaName"])
    /\ query.query.subAreas # << >>


\* The route has a row in the executed query: it lies in a matched area
\* where the query has SubAreas, and one of its joined rows passes the where
\* text
Matching(r) ==
    /\ query.query.subAreas # << >> =>
          SubAreasCount(r.AreaId, query.queryParameters["parentAreaName"]) > 0
    /\ PlanRows(r, query.query.joinClause, query.query.whereClause,
                query.queryParameters) # {}

\* C19: the records fetchRoutes returns are in strictly ascending order of
\* RouteId, so no route is there twice, and their routes are exactly the
\* matching routes, however many joined rows a route has.
C19_SortedOnce ==
    (pc = "returned" /\ method = "fetchRoutes") =>
        /\ \A i, j \in 1..Len(outcome.rows) :
              i < j => outcome.rows[i].RouteId < outcome.rows[j].RouteId
        /\ IdsOf(outcome) = { r.RouteId : r \in { x \in Routes : Matching(x) } }

\* fetchRoutes has returned several routes, one of them with more than one
\* joined row and a comment
C19_Witness ==
    /\ pc = "returned"
    /\ method = "fetchRoutes"
    /\ Len(outcome.rows) >= 2
    /\ \E i \in 1..Len(outcome.rows) :
          /\ RouteRowCount(RouteById(outcome.rows[i].RouteId), query.query,
                           query.queryParameters) >= 2
          /\ DOMAIN outcome.rows[i].Comments # {}


\* The call has ended in an error that reports its criteria
ValidationError ==
    /\ pc = "raised"
    /\ outcome.exc = "ValueError"

\* The catalog query of the method is among the calls made
CatalogQueryExecuted ==
    \E i \in 1..Len(log) : log[i].call = "cursor.execute" /\ log[i].query = method

\* C20: when a call ends in a validation error, no query has been executed on
\* the cursor and no request made of the geocoder since the call began, and
\* the catalog query of the method has not been executed.
C20_ErrorBeforeAnyQuery ==
    ValidationError =>
        /\ log = << >>
        /\ query = NoQuery
        /\ ~CatalogQueryExecuted

\* A call has ended in a validation error after a query or a geocoding
\* request
C20_Witness ==
    /\ ValidationError
    /\ AllowedNamesOnce(kwargs)
    /\ LowerNames(kwargs) = {"routedifficultylow"}
    /\ log # << >>


\* The lookups of the reference tables among the queries of a call
ReferenceLookups ==
    { "difficultySystems", "ratingSystemRatings", "difficultyRanking",
      "minDifficultyRanking", "maxDifficultyRanking", "severityRanking" }

\* The calls of the log that are lookups of the reference tables
LookupsIssued ==
    { i \in 1..Len(log) : log[i].call = "cursor.execute" /\ log[i].query \in ReferenceLookups }

\* C21: every lookup of the difficulty and severity reference tables that a
\* call has issued has no value concatenated into its query text; whatever
\* value it uses is a bound parameter.
C21_LookupsBindValues ==
    \A i \in LookupsIssued : log[i].inlined = {}

\* A call with a difficulty bound has compiled, its lookups issued
C21_Witness ==
    /\ Compiled
    /\ AllowedNamesOnce(kwargs)
    /\ "routedifficultylow" \in LowerNames(kwargs)
    /\ \E i \in LookupsIssued : log[i].query = "ratingSystemRatings"
    /\ \E i \in LookupsIssued : log[i].query = "difficultyRanking"


\* The routes with a rating by a known user
RatedRoutes ==
    { rr.RouteId : rr \in { x \in RouteRatings : x.UserId # << >> } }

\* C22: fetchRouteRatings ends as fetchRoutes ends for the same criteria, in
\* the same error or returning; the routes of the ratings it returns are the
\* routes fetchRoutes returns that have a rating with a user id.
C22_RatingsFilterAsRoutes ==
    (Done /\ method = "fetchRouteRatings") =>
        /\ outcome.exc = fetchRoutes(kwargs).exc
        /\ IdsOf(outcome) = IdsOf(fetchRoutes(kwargs)) \cap RatedRoutes

\* fetchRouteRatings has returned ratings for criteria that keep some routes
\* and drop others, among the kept a route without a rating by a user
C22_Witness ==
    /\ pc = "returned"
    /\ method = "fetchRouteRatings"
    /\ Len(plan.whereClause) > 1
    /\ IdsOf(outcome) # {}
    /\ IdsOf(fetchRoutes(kwargs)) \ RatedRoutes # {}
    /\ RatedRoutes \ IdsOf(outcome) # {}


\* The markers a criterion allows after its number
MarkersOf(lowerName) ==
    IF lowerName \in {"pitches", "grade"} THEN {"+", "-", "="} ELSE {"+", "-"}

\* The error of a criterion whose text is no number
InvalidNumber(lowerName) ==
    CASE lowerName = "height"        -> "Height is not a valid number."
      [] lowerName = "pitches"       -> "Pitches is not a valid number."
      [] lowerName = "grade"         -> "Grade is not a valid number."
      [] lowerName = "averagerating" -> "Average rating is not a valid number."
      [] lowerName = "votecount"     -> "Vote count is not a valid number."
      [] lowerName = "elevation"     -> "Elevation is not a valid number."

\* A text read as a number and at most one trailing marker of the set:
\* <<v, marker>>, or <<>> for any other text
MarkedNumber(text, markers) ==
    IF NumberOf(text) # << >> THEN << NumberOf(text)[1], "" >>
    ELSE IF Len(text) > 1 /\ text[Len(text)] \in markers
            /\ NumberOf(SubSeq(text, 1, Len(text) - 1)) # << >>
    THEN << NumberOf(SubSeq(text, 1, Len(text) - 1))[1], text[Len(text)] >>
    ELSE << >>

\* The comparison a marker asks for
OpOf(marker) ==
    CASE marker = "-" -> "<="
      [] marker = "=" -> "="
      [] OTHER        -> ">="

\* The call has one numeric criterion, its text without blanks inside
NumericCall ==
    /\ Done
    /\ NumericOnly(kwargs)
    /\ \A i \in 1..Len(StripSpace(kwargs[CHOOSE k \in DOMAIN kwargs : TRUE])) :
          StripSpace(kwargs[CHOOSE k \in DOMAIN kwargs : TRUE])[i] # " "

\* C23: a numeric criterion compiles exactly when its text is a number and at
\* most one trailing marker the criterion allows ('+', '-', and '=' for
\* pitches and grade); the value bound is that number, its sign kept; every
\* other text ends the call with the invalid-number error of the criterion.
C23_NumberAndOneMarker ==
    NumericCall =>
        LET k == CHOOSE x \in DOMAIN kwargs : TRUE
            read == MarkedNumber(StripSpace(kwargs[k]), MarkersOf(KeyLower(k)))
        IN  IF read # << >>
            THEN OneComparison(plan, OpOf(read[2]), read[1])
            ELSE /\ pc = "raised"
                 /\ outcome.exc = "ValueError"
                 /\ outcome.msg = InvalidNumber(KeyLower(k))

\* A call with the text '-3+' as its only criterion has ended
C23_Witness ==
    /\ NumericCall
    /\ kwargs[CHOOSE k \in DOMAIN kwargs : TRUE] = <<"-","3","+">>


UnknownDifficultyToken == "Could not determine what difficulty metric to use"

\* The call has one criterion, a difficulty bound that is not empty
OneBound ==
    /\ Done
    /\ AllowedNamesOnce(kwargs)
    /\ Cardinality(DOMAIN kwargs) = 1
    /\ LowerNames(kwargs) \subseteq {"routedifficultylow", "routedifficultyhigh"}
    /\ kwargs[CHOOSE k \in DOMAIN kwargs : TRUE] # ""

\* C24: a token of the reference table given as the only difficulty bound
\* compiles, the plan bound to the one family that holds the token and, as
\* the low or the high parameter, to the token's rank in it; a token of no
\* family ends the call with the unknown-token error.
C24_FamilyDetectionTotal ==
    OneBound =>
        LET k == CHOOSE x \in DOMAIN kwargs : TRUE
            token == kwargs[k]
            name == IF KeyLower(k) = "routedifficultylow"
                    THEN "difficultyLow" ELSE "difficultyHigh"
        IN  IF Families(token) # {}
            THEN /\ ~Failed(plan)
                 /\ Families(token) = { plan.queryParameters["ratingSystem"] }
                 /\ plan.queryParameters[name] =
                        RankIn(token, plan.queryParameters["ratingSystem"])
            ELSE /\ pc = "raised"
                 /\ outcome.exc = "ValueError"
                 /\ outcome.msg = UnknownDifficultyToken

\* A call with the token '5th' of the reference table as its only bound has
\* ended
C24_Witness ==
    /\ OneBound
    /\ kwargs[CHOOSE k \in DOMAIN kwargs : TRUE] = "5th"
    /\ Families("5th") = {"YDS"}


\* The severity token of the call, as the lookup compares it, is in the
\* reference table
KnownSeverity(kw) ==
    \E row \in SeverityReference : row.Severity = UpperStr(Criterion(kw, "severitythreshold"))

\* C25: a severityThreshold token that is not in the severity reference
\* table ends the call with a reported validation error, not with an
\* exception escaping from the statement that reads the lookup's row, and no
\* plan is returned.
C25_UnknownSeverityReported ==
    (Done /\ AllowedNamesOnce(kwargs) /\ "severitythreshold" \in LowerNames(kwargs)
          /\ ~KnownSeverity(kwargs)
          /\ ~Failed(processFilters(Without(kwargs, {"severitythreshold"})))) =>
        /\ pc = "raised"
        /\ Failed(plan)
        /\ Reported(outcome)

\* A call whose only criterion is the severity token 'XX' has ended
C25_Witness ==
    /\ Done
    /\ SeverityOnly(kwargs)
    /\ Criterion(kwargs, "severitythreshold") = <<"X","X">>
    /\ ~KnownSeverity(kwargs)


\* The criteria with another text for proximityRoute
WithProximityRoute(kw, text) ==
    [k \in DOMAIN kw |-> IF KeyLower(k) = "proximityroute" THEN text ELSE kw[k]]

\* The areas an identifier names: the area of that id and the area owning
\* the route of that id
AreasNamed(id) ==
    { a \in Areas : \/ a.AreaId = id
                    \/ \E r \in Routes : r.RouteId = id /\ r.AreaId = a.AreaId }

\* The call locates by proximityRoute: it has a radius and none of city,
\* state, latitude and longitude, and it compiles with a proximity route
\* that resolves
ProximityCall ==
    /\ Done
    /\ AllowedNamesOnce(kwargs)
    /\ {"proximityroute", "radius"} \subseteq LowerNames(kwargs)
    /\ LowerNames(kwargs) \cap {"city", "state", "latitude", "longitude"} = {}
    /\ ~Failed(processFilters(WithProximityRoute(kwargs,
                  <<"r","o","u","t","e","/","1","0","4","/","r">>)))

\* C26: a call that locates by proximityRoute binds its plan to the stored
\* coordinates of the area the first number of the text names, as an area id
\* or as the id of a route of the area; when the text has no number or the
\* number names nothing, the call ends with a reported location error.
C26_ProximityRouteResolution ==
    ProximityCall =>
        LET digits == FirstDigitRun(Criterion(kwargs, "proximityroute"))
            named == IF digits = << >> THEN {} ELSE AreasNamed(DigitsValue(digits, 0))
        IN  /\ \A a \in named :
                  (a.Latitude # << >> /\ a.Longitude # << >>) =>
                      BindsPoint(plan, a.Latitude[1], a.Longitude[1])
            /\ named = {} =>
                  /\ pc = "raised"
                  /\ Reported(outcome)

\* A call that locates by a proximityRoute text without a number has ended
C26_Witness ==
    /\ ProximityCall
    /\ FirstDigitRun(Criterion(kwargs, "proximityroute")) = << >>


\* The comments of a route
CommentsOf(routeId) == { c \in RouteComments : c.RouteId = routeId }

\* C29: in every record fetchRoutes returns, the aggregated Comments hold
\* each comment of the route once and nothing else, however many matched
\* areas lead to the route's area and however many of its difficulty tokens
\* pass the difficulty predicate.
C29_CommentsOnce ==
    (pc = "returned" /\ method = "fetchRoutes") =>
        \A i \in 1..Len(outcome.rows) :
            /\ DOMAIN outcome.rows[i].Comments = CommentsOf(outcome.rows[i].RouteId)
            /\ \A c \in DOMAIN outcome.rows[i].Comments : outcome.rows[i].Comments[c] = 1

\* fetchRoutes has returned a route with a comment whose area is below a
\* matched area and matches the fragment itself
C29_Witness ==
    /\ AreaReturned
    /\ method = "fetchRoutes"
    /\ \E i \in 1..Len(outcome.rows) :
          /\ CommentsOf(outcome.rows[i].RouteId) # {}
          /\ SubAreasCount(outcome.rows[i].AreaId, query.queryParameters["parentAreaName"]) = 2


\* ------------------------------------------- the recursive SubAreas query

\* How many areas the area tables of this part have
MaxAreas == 3

AreaIds == 1..MaxAreas

\* Following ParentAreaId from an area ends at an area without a parent (0
\* for NULL) in at most n steps
RECURSIVE EndsAtRoot(_, _, _)
EndsAtRoot(parent, a, n) ==
    IF a = 0 THEN TRUE
    ELSE IF n = 0 THEN FALSE
    ELSE EndsAtRoot(parent, parent[a], n - 1)

\* The area tables that are forests: ParentAreaId of every area, with no
\* cycle of parent links
Forests ==
    { parent \in [AreaIds -> 0..MaxAreas] :
        \A a \in AreaIds : EndsAtRoot(parent, a, MaxAreas) }

\* "with recursive SubAreas as (...)" begins: the working table and the
\* result are empty
ExpansionStart(parent, named) ==
    [pc |-> "start", parent |-> parent, named |-> named, working |-> {},
     result |-> [a \in AreaIds |-> 0], rounds |-> 0]

\* "select AreaId from Areas where lower(AreaName) like %(parentAreaName)s":
\* the areas whose name matches are the first working table and go into the
\* result
SelectNamed ==
    /\ expansion.pc = "start"
    /\ expansion' = [expansion EXCEPT
                        !.pc = "running",
                        !.working = expansion.named,
                        !.result = [a \in AreaIds |->
                                      IF a \in expansion.named THEN 1 ELSE 0]]
    /\ UNCHANGED <<callVars, als, recommender>>

\* The step that joins Areas on ParentAreaId = AreaId where it should join
\* on SubAreas
JoinSubAreasOnAreas ==
    /\ expansion.pc = "running"
    /\ expansion.working # {}
    /\ expansion' = [expansion EXCEPT
                        !.working = { a \in AreaIds : a \in expansion.working }]
    /\ UNCHANGED <<callVars, als, recommender>>

\* "union all select a.AreaId from Areas a inner join SubAreas s on s.AreaId
\* = a.ParentAreaId": one evaluation of the recursive term on the working
\* table; its rows are the next working table and are added to the result
JoinSubAreas ==
    /\ expansion.pc = "running"
    /\ expansion.working # {}
    /\ expansion' = [expansion EXCEPT
                        !.working = { a \in AreaIds : expansion.parent[a] \in expansion.working },
                        !.result = [a \in AreaIds |->
                                      IF expansion.parent[a] \in expansion.working
                                      THEN expansion.result[a] + 1
                                      ELSE expansion.result[a]],
                        !.rounds = expansion.rounds + 1]
    /\ UNCHANGED <<callVars, als, recommender>>

\* The recursive term gave no row: the query has its SubAreas
ExpansionEnd ==
    /\ expansion.pc = "running"
    /\ expansion.working = {}
    /\ expansion' = [expansion EXCEPT !.pc = "done"]
    /\ UNCHANGED <<callVars, als, recommender>>

\* The query is evaluated on every forest and every set of matching areas
ExpansionInit ==
    /\ pc = "idle"
    /\ method = ""
    /\ kwargs = NoKwargs
    /\ plan = NewPlan
    /\ query = NoQuery
    /\ log = << >>
    /\ outcome = NoOutcome
    /\ expansion \in { ExpansionStart(parent, named) :
                         parent \in Forests, named \in SUBSET AreaIds }
    /\ als = NoALS
    /\ recommender = NoRecommender

ExpansionNext ==
    \/ SelectNamed
    \/ JoinSubAreas
    \/ ExpansionEnd

\* The database evaluates the query it was given: a step that can be taken
\* is taken
ExpansionSpec ==
    ExpansionInit /\ [][ExpansionNext]_vars /\ WF_vars(ExpansionNext)

\* The areas above an area, itself included
RECURSIVE SelfAndAbove(_, _)
SelfAndAbove(parent, a) ==
    IF a = 0 THEN {} ELSE {a} \cup SelfAndAbove(parent, parent[a])

\* C27: on every area table that is a forest and for every set of matching
\* areas, the evaluation of the recursive SubAreas query comes to its end,
\* at whatever depth the areas are nested.
C27_ExpansionTerminates ==
    <>(expansion.pc = "done")

\* The result of a finished evaluation holds every area once for each
\* matching area at or above it
C27_ExpansionResult ==
    expansion.pc = "done" =>
        \A a \in AreaIds :
            expansion.result[a] =
                Cardinality(SelfAndAbove(expansion.parent, a) \cap expansion.named)

\* An evaluation has ended on a table whose areas are nested one in another
\* to the full depth, the outermost matching
C27_Witness ==
    /\ expansion.pc = "done"
    /\ expansion.rounds = MaxAreas
    /\ \E a \in AreaIds : Cardinality(SelfAndAbove(expansion.parent, a)) = MaxAreas
    /\ \E a \in AreaIds : expansion.result[a] >= 2


\* ------------------------------------------- SparkALSModel.recommendRoutes

\* RouteTicks(RouteId, UserId)
RouteTicks == {
    [RouteId |-> 101, UserId |-> 7],
    [RouteId |-> 102, UserId |-> 8],
    [RouteId |-> 104, UserId |-> 11] }

\* RouteToDos(RouteId, UserId)
RouteToDos == {
    [RouteId |-> 105, UserId |-> 7],
    [RouteId |-> 104, UserId |-> 11] }

\* fetchUserRoutes(userId): the route ids of the three selects, united
fetchUserRoutes(userId) ==
    { t.RouteId : t \in { x \in RouteTicks : x.UserId = userId } }
    \cup { rr.RouteId : rr \in { x \in RouteRatings : x.UserId = << userId >> } }
    \cup { t.RouteId : t \in { x \in RouteToDos : x.UserId = userId } }

\* self.userRatings, the ratings the recommender was fitted on: what
\* fetchRatingData() with no criteria fetches, the ratings that have a user
userRatings == { RatingRecord(rr) : rr \in { x \in RouteRatings : x.UserId # << >> } }

\* The users and the routes the fitted factors know
FittedUsers == { rating.UserId : rating \in userRatings }
FittedRoutes == { rating.RouteId : rating \in userRatings }

\* The rating the fitted factors give a user and a route they know (a whole
\* number stands for the product of the two factor vectors)
Prediction(userId, routeId) == (userId * 7 + routeId * 3) % 11

\* The users asked for: three with ratings, one with no interaction at all
\* (10) and one with ticks and to-dos but no rating (11)
UserIds == {7, 8, 9, 10, 11}

\* The largest n asked for
MaxN == 4

\* The filtering criteria asked for
ALSKwargs == { NoKwargs } \cup AreaKwargs

\* recommendRoutes(userId, n, excludeInteractedRoutes, **kwargs) is called
ALSStart(userId, n, excludeInteractedRoutes, kw) ==
    [pc |-> "fetch", userId |-> userId, n |-> n,
     excludeInteractedRoutes |-> excludeInteractedRoutes, kwargs |-> kw,
     routesToRecommend |-> << >>, recommendations |-> << >>,
     exc |-> "", msg |-> "", result |-> << >>]

\* The rows of a frame that pass a test, in the order of the frame: the k-th
\* of them is the row with k passing rows up to it
SelectRows(frame, keep) ==
    [k \in 1..Cardinality({ i \in 1..Len(frame) : frame[i] \in keep }) |->
        frame[CHOOSE i \in 1..Len(frame) :
                /\ frame[i] \in keep
                /\ Cardinality({ j \in 1..i : frame[j] \in keep }) = k]]

\* routesToRecommend = pd.DataFrame(self.routePipeline.fetchRoutes(**kwargs))
\* and the check that the frame is not empty
ALSFetchRoutes ==
    /\ als.pc = "fetch"
    /\ \E routes \in { fetchRoutes(als.kwargs) } :
         als' = IF routes.exc # ""
                THEN [als EXCEPT !.pc = "raised", !.exc = routes.exc, !.msg = routes.msg]
                ELSE IF routes.rows = << >>
                THEN [als EXCEPT !.pc = "raised", !.exc = "ValueError",
                                 !.msg = "No routes found matching supplied search criteria"]
                ELSE [als EXCEPT !.pc = "exclude",
                                 !.routesToRecommend =
                                     [i \in 1..Len(routes.rows) |-> routes.rows[i].RouteId]]
    /\ UNCHANGED <<callVars, expansion, recommender>>

\* if excludeInteractedRoutes: the frame of fetchUserRoutes has no column
\* "RouteId" when the user has no row, and indexing it is a KeyError
ALSExcludeInteracted ==
    /\ als.pc = "exclude"
    /\ \E userInteractedRoutes \in { fetchUserRoutes(als.userId) } :
         als' = IF ~ als.excludeInteractedRoutes
                THEN [als EXCEPT !.pc = "transform"]
                ELSE IF userInteractedRoutes = {}
                THEN [als EXCEPT !.pc = "raised", !.exc = "KeyError", !.msg = "RouteId"]
                ELSE [als EXCEPT !.pc = "transform",
                                 !.routesToRecommend =
                                     SelectRows(als.routesToRecommend,
                                                { r.RouteId : r \in Routes } \ userInteractedRoutes)]
    /\ UNCHANGED <<callVars, expansion, recommender>>

\* spark.createDataFrame(routeIds) and self.recommender.transform(spark_df):
\* with coldStartStrategy = "drop" the rows of a user or of a route the
\* factors do not know are dropped.  Of a frame with no row Spark cannot
\* infer the schema unless Arrow conversion is on: either the call raises or
\* it goes on with no row
ALSTransform ==
    /\ als.pc = "transform"
    /\ \/ /\ als.routesToRecommend = << >>
          /\ als' = [als EXCEPT !.pc = "raised", !.exc = "ValueError",
                                !.msg = "can not infer schema from empty dataset"]
       \/ \E known \in { IF als.userId \in FittedUsers THEN FittedRoutes ELSE {} } :
          \E kept \in { SelectRows(als.routesToRecommend, known) } :
            als' = [als EXCEPT !.pc = "rank",
                               !.recommendations =
                                   [i \in 1..Len(kept) |->
                                      [RouteId |-> kept[i],
                                       prediction |-> Prediction(als.userId, kept[i])]]]
    /\ UNCHANGED <<callVars, expansion, recommender>>

\* values.argsort(): the positions of a column, smallest value first
RECURSIVE argsort(_, _)
argsort(column, left) ==
    IF left = {} THEN << >>
    ELSE LET m == CHOOSE i \in left :
                    \A j \in left : \/ column[i] < column[j]
                                    \/ column[i] = column[j] /\ i <= j
         IN  << m >> \o argsort(column, left \ {m})

\* a[-1:-n:-1] of Python for n >= 0: from the last element backwards, down to
\* but without the element n places from the end
SliceFromEnd(a, n) ==
    LET stop == IF n = 0 THEN 0 ELSE IF n <= Len(a) THEN Len(a) - n ELSE 0 - 1
    IN  [i \in 1..(Len(a) - 1 - stop) |-> a[Len(a) - i + 1]]

\* The inner merge on RouteId, the argsort of the predictions and the rows
\* .iloc[recommendationIdxs[-1:-n:-1]] returned
ALSRank ==
    /\ als.pc = "rank"
    /\ \E predicted \in { { als.recommendations[i].RouteId :
                                i \in 1..Len(als.recommendations) } } :
       \E merged \in { SelectRows(als.routesToRecommend, predicted) } :
         \E recommendationIdxs \in
               { argsort([i \in 1..Len(merged) |-> Prediction(als.userId, merged[i])],
                         1..Len(merged)) } :
            \E rows \in { SliceFromEnd(recommendationIdxs, als.n) } :
               als' = [als EXCEPT !.pc = "returned",
                                  !.routesToRecommend = merged,
                                  !.result = [i \in 1..Len(rows) |-> merged[rows[i]]]]
    /\ UNCHANGED <<callVars, expansion, recommender>>

ALSInit ==
    /\ pc = "idle"
    /\ method = ""
    /\ kwargs = NoKwargs
    /\ plan = NewPlan
    /\ query = NoQuery
    /\ log = << >>
    /\ outcome = NoOutcome
    /\ expansion = NoExpansion
    /\ als \in { ALSStart(userId, n, exclude, kw) :
                   userId \in UserIds, n \in 0..MaxN, exclude \in BOOLEAN,
                   kw \in ALSKwargs }
    /\ recommender = NoRecommender

ALSNext ==
    \/ ALSFetchRoutes
    \/ ALSExcludeInteracted
    \/ ALSTransform
    \/ ALSRank

ALSSpec == ALSInit /\ [][ALSNext]_vars


\* ---- C28

\* The prediction a route is ranked by: recommendations["prediction"]
\* .fillna(0) gives 0 to a route without one
RankedBy(userId, routeId) ==
    IF userId \in FittedUsers /\ routeId \in FittedRoutes
    THEN Prediction(userId, routeId) ELSE 0

\* The routes matching the filters, less the routes the user interacted with
\* when they are excluded
Candidates(a) ==
    { fetchRoutes(a.kwargs).rows[i].RouteId : i \in 1..Len(fetchRoutes(a.kwargs).rows) }
    \ (IF a.excludeInteractedRoutes THEN fetchUserRoutes(a.userId) ELSE {})

Smaller(x, y) == IF x <= y THEN x ELSE y

\* The routes returned are the top n candidates, best prediction first
TopOfCandidates(a) ==
    /\ Len(a.result) = Smaller(a.n, Cardinality(Candidates(a)))
    /\ \A i \in 1..Len(a.result) : a.result[i] \in Candidates(a)
    /\ \A i, j \in 1..Len(a.result) :
         i < j => /\ a.result[i] # a.result[j]
                  /\ RankedBy(a.userId, a.result[i]) >= RankedBy(a.userId, a.result[j])
    /\ \A c \in Candidates(a) :
         (\A i \in 1..Len(a.result) : a.result[i] # c)
         => \A i \in 1..Len(a.result) :
              RankedBy(a.userId, a.result[i]) >= RankedBy(a.userId, c)

\* C28: recommendRoutes(userId, n) returns the top n routes by predicted
\* rating, best first, among the routes matching the filters: exactly
\* min(n, number of candidates) routes, none of them a route the user ticked,
\* rated or marked to-do when excludeInteractedRoutes is true (a user without
\* interactions excludes nothing and raises no error); when no route matches
\* the filters it raises an error instead
C28_TopNByPrediction ==
    (als.pc \in {"raised", "returned"} /\ fetchRoutes(als.kwargs).exc = "")
    => IF fetchRoutes(als.kwargs).rows = << >>
       THEN als.pc = "raised"
       ELSE als.pc = "returned" /\ TopOfCandidates(als)

\* One route is asked for, for a user and routes the factors know, and no
\* route is returned
C28_Witness ==
    /\ als.pc = "returned"
    /\ als.n = 1
    /\ ~ als.excludeInteractedRoutes
    /\ als.kwargs = NoKwargs
    /\ als.userId = 7
    /\ Len(als.routesToRecommend) >= 2
    /\ als.result = << >>

\* A user without any interaction asks for routes he has not interacted with
\* and the call raises KeyError
C28_WitnessNoInteraction ==
    /\ als.pc = "raised"
    /\ als.exc = "KeyError"
    /\ als.excludeInteractedRoutes
    /\ fetchUserRoutes(als.userId) = {}
    /\ fetchRoutes(als.kwargs).rows # << >>

\* What the code does return: the routes with a prediction, best first, one
\* fewer than asked for unless n is beyond their number (all of them) or 0
\* (all but the last)
C28_ReturnsBelowN ==
    als.pc = "returned"
    => /\ \A i \in 1..Len(als.result) :
            /\ als.result[i] \in Candidates(als) \cap FittedRoutes
            /\ als.userId \in FittedUsers
       /\ \A i, j \in 1..Len(als.result) :
            i < j => Prediction(als.userId, als.result[i])
                       > Prediction(als.userId, als.result[j])
       /\ Len(als.result) =
            IF als.n = 0 THEN (IF als.routesToRecommend = << >> THEN 0
                               ELSE Len(als.routesToRecommend) - 1)
            ELSE Smaller(als.n - 1, Len(als.routesToRecommend))


\* ------------------------------------------------- RouteContentRecommender

\* The terms of the vocabulary counted in a text: how often it has "crack"
\* and how often "slab".  For a route the text is Description + Protection +
\* Comments
RouteTerms(routeId) ==
    CASE routeId = 101 -> <<2, 0>>
      [] routeId = 102 -> <<1, 2>>
      [] routeId = 104 -> <<1, 1>>
      [] routeId = 105 -> <<1, 0>>
      [] routeId = 106 -> <<0, 1>>
      [] routeId = 107 -> <<1, 1>>
      [] OTHER -> <<0, 0>>

\* What the form field "Keywords" and the argument routeURL hold
FormTexts ==
    { <<"r","o","u","t","e","/","1","0","1">>,
      <<"r","o","u","t","e","/","1","0","8","/","x">>,
      <<"r","o","u","t","e","/","9","9","9">>,
      <<"s","l","a","b">>,
      <<"s","t","e","e","p">> }

\* The keywords given to recommendRoutes
Keywords == { <<"s","l","a","b">>, <<"s","t","e","e","p">> }

KeywordTerms(keywords) ==
    IF keywords = <<"s","l","a","b">> THEN <<0, 1>> ELSE <<0, 0>>

\* The criteria of the routes to recommend
RecommenderKwargs ==
    { [k \in {"parentAreaName", "type"} |->
         IF k = "type" THEN <<"S","p","o","r","t",","," ","T","r","a","d">>
         ELSE <<"e","l","d","o">>],
      [k \in {"type"} |-> <<"A","l","p","i","n","e",","," ","I","c","e">>],
      [k \in {"type"} |-> <<"T","R">>],
      [k \in {"type"} |-> <<"T","o","p"," ","R","o","p","e">>] }

\* The largest n asked of recommendRoutes
MaxSimilar == 2

\* n of the request handler: recommendRoutes(n=20, keywords=keywords)
HandlerN == 20

\* How a call on the recommender ended
Ended(op, n, keywords, exc, result) ==
    [op |-> op, n |-> n, keywords |-> keywords, exc |-> exc, result |-> result]

\* RouteContentRecommender(...): the fields after __init__; << >> is None
NewRecommender ==
    [pc |-> "ready", routeToCompare |-> << >>, routesToRecommend |-> << >>,
     routes |-> << >>, similarityMatrix |-> << >>,
     last |-> Ended("__init__", 0, << >>, "", << >>)]

\* fetchRouteByURL(routeURL): the id is the first run of digits of the text
fetchRouteByURL(routeURL) ==
    IF FirstDigitRun(routeURL) = << >>
    THEN [exc |-> "ValueError", row |-> << >>]
    ELSE IF \A r \in Routes : r.RouteId # DigitsValue(FirstDigitRun(routeURL), 0)
    THEN [exc |-> "ValueError", row |-> << >>]
    ELSE [exc |-> "", row |-> << DigitsValue(FirstDigitRun(routeURL), 0) >>]

\* self.routeToCompare = self.routePipeline.fetchRouteByURL(routeURL)
fetchRouteToCompare(rc, routeURL) ==
    IF fetchRouteByURL(routeURL).exc # ""
    THEN [rc EXCEPT !.last = Ended("fetchRouteToCompare", 0, << routeURL >>,
                                   fetchRouteByURL(routeURL).exc, << >>)]
    ELSE [rc EXCEPT !.routeToCompare = fetchRouteByURL(routeURL).row,
                    !.last = Ended("fetchRouteToCompare", 0, << routeURL >>, "", << >>)]

\* self.routesToRecommend = self.routePipeline.fetchRoutes(**kwargs), and a
\* ValueError when the list is empty; fetched is what fetchRoutes ended with
fetchRoutesToRecommend(rc, fetched) ==
    IF fetched.exc # ""
    THEN [rc EXCEPT !.last = Ended("fetchRoutesToRecommend", 0, << >>, fetched.exc, << >>)]
    ELSE [rc EXCEPT !.routesToRecommend =
                        << [i \in 1..Len(fetched.rows) |-> fetched.rows[i].RouteId] >>,
                    !.last = Ended("fetchRoutesToRecommend", 0, << >>,
                                   IF fetched.rows = << >> THEN "ValueError" ELSE "",
                                   << >>)]

\* A row of self.routes: the id of the route (0 for the row made of the
\* keywords) and the terms of its text
Row(routeId, terms) == [RouteId |-> routeId, Text |-> terms]

\* [route for route in self.routesToRecommend if route["RouteId"] != id]
RECURSIVE RowsOtherThan(_, _)
RowsOtherThan(routeIds, id) ==
    IF routeIds = << >> THEN << >>
    ELSE (IF Head(routeIds) # id THEN << Row(Head(routeIds), RouteTerms(Head(routeIds))) >>
          ELSE << >>)
         \o RowsOtherThan(Tail(routeIds), id)

\* The rows fit gives self.routes, or the exception it raises before that
FitRows(rc, keywords) ==
    IF rc.routeToCompare # << >>
    THEN IF rc.routesToRecommend = << >>
         THEN [exc |-> "TypeError", rows |-> << >>]
         ELSE [exc |-> "",
               rows |-> << Row(rc.routeToCompare[1], RouteTerms(rc.routeToCompare[1])) >>
                        \o RowsOtherThan(rc.routesToRecommend[1], rc.routeToCompare[1])]
    ELSE IF keywords = << >>
    THEN [exc |-> "ValueError", rows |-> << >>]
    ELSE IF rc.routesToRecommend = << >>
    THEN [exc |-> "TypeError", rows |-> << >>]
    ELSE IF rc.routesToRecommend[1] = << >>
    THEN [exc |-> "IndexError", rows |-> << >>]
    ELSE [exc |-> "",
          rows |-> << Row(0, KeywordTerms(keywords[1])) >>
                   \o RowsOtherThan(rc.routesToRecommend[1], 0)]

Dot(a, b) == a[1] * b[1] + a[2] * b[2]

\* cosine_similarity of two term vectors, squared, as a fraction (the weights
\* of the terms leave alone which vectors are parallel and which are zero);
\* 0 when one of them has no term
Similarity(a, b) ==
    IF Dot(a, a) = 0 \/ Dot(b, b) = 0
    THEN [num |-> 0, den |-> 1]
    ELSE [num |-> Dot(a, b) * Dot(a, b), den |-> Dot(a, a) * Dot(b, b)]

NotAbove(s, t) == s.num * t.den <= t.num * s.den

\* similarityMatrix.argsort(): the orders of the rows that have the
\* similarities to the first row ascending.  Which of two equal
\* similarities comes first is not settled by argsort
Argsorts(rows) ==
    LET similarity == [i \in 1..Len(rows) |-> Similarity(rows[1].Text, rows[i].Text)]
    IN  { p \in [1..Len(rows) -> 1..Len(rows)] :
            /\ \A i, j \in 1..Len(rows) : i # j => p[i] # p[j]
            /\ \A i \in 1..(Len(rows) - 1) : NotAbove(similarity[p[i]], similarity[p[i + 1]]) }

\* fit(keywords) with the order p that argsort gave
fit(rc, keywords, p) ==
    [rc EXCEPT !.routes = << FitRows(rc, keywords).rows >>,
               !.similarityMatrix = << p >>]

\* a[-2:-(n + 2):-1] of Python for n >= 0: from the element before the last
\* backwards, n elements or as many as there are
SliceBelowLast(a, n) ==
    [i \in 1..(IF Len(a) - n - 2 >= 0 THEN n ELSE Len(a) - 1) |-> a[Len(a) - i]]

\* self.routes.iloc[self.similarityMatrix[0, -2:-(n + 2):-1]]
Recommended(rc, n) ==
    LET similarityIndices == SliceBelowLast(rc.similarityMatrix[1], n)
    IN  [i \in 1..Len(similarityIndices) |-> rc.routes[1][similarityIndices[i]].RouteId]

\* recommendRoutes(n, keywords): fit only when there is no similarity matrix
recommendRoutes(rc, op, n, keywords, p) ==
    LET fitted == fit(rc, keywords, p)
    IN  IF rc.similarityMatrix # << >>
        THEN [rc EXCEPT !.last = Ended(op, n, keywords, "", Recommended(rc, n))]
        ELSE IF FitRows(rc, keywords).exc # ""
        THEN [rc EXCEPT !.last = Ended(op, n, keywords, FitRows(rc, keywords).exc, << >>)]
        ELSE [fitted EXCEPT !.last = Ended(op, n, keywords, "", Recommended(fitted, n))]

\* The orders argsort can give when recommendRoutes has to fit
FitOrders(rc, keywords) ==
    LET fitRows == FitRows(rc, keywords)
    IN  IF rc.similarityMatrix # << >> \/ fitRows.exc # ""
        THEN { << >> }
        ELSE Argsorts(fitRows.rows)

None_or(S) == { << >> } \cup { << x >> : x \in S }

\* recommender.fetchRouteToCompare(routeURL)
CallFetchRouteToCompare ==
    /\ recommender.pc = "ready"
    /\ \E routeURL \in FormTexts :
         recommender' = fetchRouteToCompare(recommender, routeURL)
    /\ UNCHANGED <<callVars, expansion, als>>

\* recommender.fetchRoutesToRecommend(**kw)
CallFetchRoutesToRecommend ==
    /\ recommender.pc = "ready"
    /\ \E kw \in RecommenderKwargs :
         \E fetched \in { fetchRoutes(kw) } :
            recommender' = fetchRoutesToRecommend(recommender, fetched)
    /\ UNCHANGED <<callVars, expansion, als>>

\* recommender.recommendRoutes(n, keywords)
CallRecommendRoutes ==
    /\ recommender.pc = "ready"
    /\ \E keywords \in None_or(Keywords) :
         \E p \in FitOrders(recommender, keywords) :
            \E n \in 1..MaxSimilar :
               recommender' = recommendRoutes(recommender, "recommendRoutes", n, keywords, p)
    /\ UNCHANGED <<callVars, expansion, als>>

\* The handler of /textually-similar-routes on the recommender of the
\* application: a text with digits is fetched as the route to compare to, any
\* other text is the keywords; then the similarity matrix is dropped, the
\* routes to recommend are fetched and 20 of them are recommended.  An
\* exception ends the request where it is raised
AfterReference(rc, text) ==
    IF FirstDigitRun(text) # << >> THEN fetchRouteToCompare(rc, text)
    ELSE [rc EXCEPT !.last = Ended("keywords", 0, << text >>, "", << >>)]

AfterCandidates(rc, text, fetched) ==
    LET referred == AfterReference(rc, text)
    IN  IF referred.last.exc # "" THEN referred
        ELSE fetchRoutesToRecommend([referred EXCEPT !.similarityMatrix = << >>], fetched)

HandlerKeywords(text) == IF FirstDigitRun(text) # << >> THEN << << >> >> ELSE << text >>

displayTextuallySimilarRoutes ==
    /\ recommender.pc = "ready"
    /\ \E kw \in RecommenderKwargs :
         \E fetched \in { fetchRoutes(kw) } :
            \E text \in FormTexts :
               \E rc \in { AfterCandidates(recommender, text, fetched) } :
                  IF rc.last.exc # ""
                  THEN recommender' = [rc EXCEPT !.last.op = "displayTextuallySimilarRoutes"]
                  ELSE \E p \in FitOrders(rc, HandlerKeywords(text)) :
                         recommender' = recommendRoutes(rc, "displayTextuallySimilarRoutes",
                                                        HandlerN, HandlerKeywords(text), p)
    /\ UNCHANGED <<callVars, expansion, als>>

RecommenderInit ==
    /\ pc = "idle"
    /\ method = ""
    /\ kwargs = NoKwargs
    /\ plan = NewPlan
    /\ query = NoQuery
    /\ log = << >>
    /\ outcome = NoOutcome
    /\ expansion = NoExpansion
    /\ als = NoALS
    /\ recommender = NewRecommender

RecommenderNext ==
    \/ CallFetchRouteToCompare
    \/ CallFetchRoutesToRecommend
    \/ CallRecommendRoutes
    \/ displayTextuallySimilarRoutes

RecommenderSpec == RecommenderInit /\ [][RecommenderNext]_vars


\* ---- C30

\* recommendRoutes has returned, called directly or by the request handler
Recommends ==
    /\ recommender.last.op \in {"recommendRoutes", "displayTextuallySimilarRoutes"}
    /\ recommender.last.exc = ""

\* The call gave keywords to compare to: a request whose text is keywords, or
\* a direct call on a recommender that has no route to compare to
ByKeywords ==
    \/ /\ recommender.last.op = "displayTextuallySimilarRoutes"
       /\ recommender.last.keywords # << << >> >>
    \/ /\ recommender.last.op = "recommendRoutes"
       /\ recommender.routeToCompare = << >>

\* There is a route or there are keywords to compare to
HasReference == ~ ByKeywords \/ recommender.last.keywords # << >>

\* The id and the terms of what the routes are to be compared to (0 is the id
\* of keywords)
ReferenceId == IF ByKeywords THEN 0 ELSE recommender.routeToCompare[1]

ReferenceTerms ==
    IF ByKeywords THEN KeywordTerms(recommender.last.keywords[1])
    ELSE RouteTerms(recommender.routeToCompare[1])

\* The routes most recently fetched, less the reference route
CandidateIds ==
    { recommender.routesToRecommend[1][i] : i \in 1..Len(recommender.routesToRecommend[1]) }
    \ { ReferenceId }

ResultIds == { recommender.last.result[i] : i \in 1..Len(recommender.last.result) }

\* At most n routes, the reference not among them
AtMostNWithoutReference ==
    /\ Len(recommender.last.result) <= recommender.last.n
    /\ 0 \notin ResultIds
    /\ recommender.routeToCompare # << >> => recommender.routeToCompare[1] \notin ResultIds

\* The routes returned are candidates of the last fetch, the most similar to
\* the reference first, and no candidate left out is more similar than one
\* returned
FromLatestFetches ==
    /\ ResultIds \subseteq CandidateIds
    /\ \A i, j \in 1..Len(recommender.last.result) :
         i < j => NotAbove(Similarity(ReferenceTerms, RouteTerms(recommender.last.result[j])),
                           Similarity(ReferenceTerms, RouteTerms(recommender.last.result[i])))
    /\ \A c \in CandidateIds \ ResultIds : \A r \in ResultIds :
         NotAbove(Similarity(ReferenceTerms, RouteTerms(c)),
                  Similarity(ReferenceTerms, RouteTerms(r)))

\* C30: after any sequence of fetchRouteToCompare, fetchRoutesToRecommend and
\* recommendRoutes calls on one recommender, recommendRoutes(n) returns at
\* most n routes, never the reference itself, computed from the reference
\* route (or keywords) and the candidate routes most recently fetched: no
\* ordering fitted earlier is reused and no keyword request is answered with
\* a reference route left from an earlier request
C30_RecommendsFromLatest ==
    Recommends => HasReference /\ AtMostNWithoutReference /\ FromLatestFetches

\* What does hold: at most n rows are returned, each a row of the last fit
C30_AtMostN ==
    Recommends
    => /\ Len(recommender.last.result) <= recommender.last.n
       /\ recommender.routes # << >>
       /\ \A id \in ResultIds :
            \E i \in 1..Len(recommender.routes[1]) : recommender.routes[1][i].RouteId = id

\* A direct call returns a route that is not among the routes fetched last:
\* the ordering fitted for the earlier routes was used again
C30_Witness ==
    /\ recommender.last.op = "recommendRoutes"
    /\ recommender.last.exc = ""
    /\ recommender.routeToCompare = << 101 >>
    /\ recommender.routesToRecommend = << << 106, 108 >> >>
    /\ 107 \in ResultIds

\* A request with the keywords "slab" is answered with the routes similar to
\* route 101, left from an earlier request
C30_WitnessLeftover ==
    /\ recommender.last.op = "displayTextuallySimilarRoutes"
    /\ recommender.last.exc = ""
    /\ recommender.last.keywords = << <<"s","l","a","b">> >>
    /\ recommender.routeToCompare = << 101 >>
    /\ recommender.routes # << >>
    /\ recommender.routes[1][1].RouteId = 101

\* A request with keywords that have no term of the vocabulary returns the
\* row made of the keywords as a route
C30_WitnessReference ==
    /\ recommender.last.op = "displayTextuallySimilarRoutes"
    /\ recommender.last.exc = ""
    /\ recommender.last.keywords = << <<"s","t","e","e","p">> >>
    /\ recommender.routeToCompare = << >>
    /\ 0 \in ResultIds

====
